---- MODULE Spec2Model ----
(***************************************************************************)
(* Voice-command resolution of the VoiceToReport backend.                  *)
(*                                                                         *)
(* Two resolvers exist in the repository and both are modelled:            *)
(*   - VoiceAgentService.process_voice_command (services/voice_agent.py),  *)
(*   - the POST /voice-command handler process_voice_command (main.py).    *)
(*                                                                         *)
(* Text is a sequence of atoms.  An atom is one character of text the      *)
(* caller or the provider controls, or one literal chunk of the source     *)
(* (the constant part of an f-string).  A provider reply is a sequence of  *)
(* tokens: braces, prose words, a JSON scalar, and "key": value members.   *)
(*                                                                         *)
(* The two providers (speech, text inference) are outside the repository:  *)
(* a call returns some text or raises.                                     *)
(***************************************************************************)
EXTENDS Integers, Sequences, FiniteSets, TLC

VARIABLES
    openai_client,   \* main.py: whether the module-level client was created
    pc,              \* where the request in progress stands
    impl,            \* which resolver serves it: "service" or "endpoint"
    audio,           \* the endpoint request's audio
    transcription,   \* the transcript being resolved
    screen_context,  \* the request's screen context
    prompt,          \* the prompt sent to the text-inference provider
    reply,           \* the provider's outcome: a reply text or an exception
    parsed,          \* the outcome of the resolver's parse step
    result,          \* the decision returned to the caller
    raised,          \* whether the resolver let an exception escape
    gptCalls,        \* calls of the text-inference provider in this request
    whisperCalls,    \* calls of the speech provider in this request
    tempFiles,       \* temporary audio files that exist
    synthetic,       \* parser round trip: prose, decision object, prose
    summary,         \* the summary returned to the caller
    error,           \* the exception the request ended with, as text
    staged,          \* the temporary file of the request in progress
    requests,        \* concurrent requests: each one's own state
    files,           \* concurrent requests: the temporary directory
    ngrok            \* NgrokManager.wait_for_ngrok: the call in progress

vars == <<openai_client, pc, impl, audio, transcription, screen_context, prompt,
          reply, parsed, result, raised, gptCalls, whisperCalls, tempFiles,
          synthetic, summary, error, staged, requests, files, ngrok>>

(***************************************************************************)
(* Bounds of the model.                                                    *)
(***************************************************************************)
\* longest transcript, in characters
MaxTranscript == 3
\* longest prose before and after the JSON object of a synthetic reply
MaxProse == 1
\* longest transcript given to a summarizer, without its padding
MaxSummaryChars == 201
\* most temporary files left behind before staging stops
MaxTempFiles == 2
\* callers of save_temp_file in one process
MaxCallers == 2

\* largest max_attempts wait_for_ngrok is called with
MaxAttempts == 3
\* most tunnels in one answer of the ngrok API
MaxTunnels == 2

\* requests in progress at the same time
MaxRequests == 2

(***************************************************************************)
(* Text.                                                                   *)
(***************************************************************************)
L(chunk) == <<chunk>>

LowerAtom(a) ==
    CASE a = "A" -> "a" [] a = "B" -> "b" [] a = "C" -> "c" [] a = "D" -> "d"
      [] a = "E" -> "e" [] a = "F" -> "f" [] a = "G" -> "g" [] a = "H" -> "h"
      [] a = "I" -> "i" [] a = "J" -> "j" [] a = "K" -> "k" [] a = "L" -> "l"
      [] a = "M" -> "m" [] a = "N" -> "n" [] a = "O" -> "o" [] a = "P" -> "p"
      [] a = "Q" -> "q" [] a = "R" -> "r" [] a = "S" -> "s" [] a = "T" -> "t"
      [] a = "U" -> "u" [] a = "V" -> "v" [] a = "W" -> "w" [] a = "X" -> "x"
      [] a = "Y" -> "y" [] a = "Z" -> "z" [] OTHER -> a

\* str.lower()
Lower(s) == [i \in 1..Len(s) |-> LowerAtom(s[i])]

\* sub in s
Contains(sub, s) ==
    \E i \in 0..(Len(s) - Len(sub)) : SubSeq(s, i + 1, i + Len(sub)) = sub

\* n copies of atom a
Repeat(a, n) == [i \in 1..n |-> a]

\* all sequences over S of length at most n
SeqsUpTo(S, n) == UNION {[1..k -> S] : k \in 0..n}

(***************************************************************************)
(* Python values held in a decoded JSON object.  A number is kept in       *)
(* hundredths (0.7 is 70).  "absent" is a key the object does not have.    *)
(***************************************************************************)
Absent == [t |-> "absent", s |-> <<>>, n |-> 0]
Null == [t |-> "null", s |-> <<>>, n |-> 0]
Str(s) == [t |-> "str", s |-> s, n |-> 0]
Num(n) == [t |-> "num", s |-> <<>>, n |-> n]
Bool(b) == [t |-> "bool", s |-> <<>>, n |-> IF b THEN 1 ELSE 0]

\* bool(v)
Truthy(v) ==
    \/ v.t = "str" /\ v.s # <<>>
    \/ v.t \in {"num", "bool"} /\ v.n # 0

\* str(v), as an f-string renders it
PyStr(v) ==
    CASE v.t = "str" -> v.s
      [] v.t = "num" -> L("<number>")
      [] v.t = "bool" -> IF v.n = 1 THEN L("True") ELSE L("False")
      [] OTHER -> L("None")

Keys == {"action", "target", "value", "confidence", "clarification",
         "confirmation", "ttsText", "metadata"}

EmptyDict == [k \in Keys |-> Absent]

\* d.get(k): None when the key is missing
Get(d, k) == IF d[k] = Absent THEN Null ELSE d[k]

\* d.get(k, default)
GetOr(d, k, default) == IF d[k] = Absent THEN default ELSE d[k]

\* the outcome of a call: a returned value or a raised exception
Return(d) == [ok |-> TRUE, err |-> <<>>, d |-> d]
Raise(msg) == [ok |-> FALSE, err |-> msg, d |-> EmptyDict]

(***************************************************************************)
(* Reply text and JSON.                                                    *)
(***************************************************************************)
LB == [k |-> "{", v |-> Absent]
RB == [k |-> "}", v |-> Absent]
Word == [k |-> "word", v |-> Absent]
Scalar == [k |-> "scalar", v |-> Absent]
Member(k, v) == [k |-> k, v |-> v]

KeyOrder == <<"action", "target", "value", "confidence", "clarification",
              "confirmation", "ttsText">>

\* json.dumps(d): the members of d in key order between braces
RECURSIVE EncodeFrom(_, _)
EncodeFrom(d, i) ==
    IF i > Len(KeyOrder) THEN <<>>
    ELSE (IF d[KeyOrder[i]] = Absent THEN <<>>
          ELSE <<Member(KeyOrder[i], d[KeyOrder[i]])>>) \o EncodeFrom(d, i + 1)

Encode(d) == <<LB>> \o EncodeFrom(d, 1) \o <<RB>>

\* str.find / str.rfind of a one-character needle: 0-based index, or -1
Find(text, ch) ==
    IF \E i \in 1..Len(text) : text[i].k = ch
    THEN (CHOOSE i \in 1..Len(text) :
              text[i].k = ch /\ \A j \in 1..(i - 1) : text[j].k # ch) - 1
    ELSE -1

RFind(text, ch) ==
    IF \E i \in 1..Len(text) : text[i].k = ch
    THEN (CHOOSE i \in 1..Len(text) :
              text[i].k = ch /\ \A j \in (i + 1)..Len(text) : text[j].k # ch) - 1
    ELSE -1

\* text[a:b] for 0 <= a, 0 <= b
Slice(text, a, b) == SubSeq(text, a + 1, IF b > Len(text) THEN Len(text) ELSE b)

\* json.loads of a text whose object may have the keys in keys: an object
\* ("dict"), a scalar value, or JSONDecodeError (~ok)
LoadsOver(keys, text) ==
    IF Len(text) = 1 /\ text[1] = Scalar
    THEN [ok |-> TRUE, kind |-> "scalar", d |-> [k \in keys |-> Absent]]
    ELSE IF /\ Len(text) >= 2
            /\ text[1] = LB
            /\ text[Len(text)] = RB
            /\ \A i \in 2..(Len(text) - 1) : text[i].k \in keys
    THEN [ok |-> TRUE, kind |-> "dict",
          d |-> [k \in keys |->
                   IF \E i \in 2..(Len(text) - 1) : text[i].k = k
                   THEN text[CHOOSE i \in 2..(Len(text) - 1) :
                               /\ text[i].k = k
                               /\ \A j \in (i + 1)..(Len(text) - 1) : text[j].k # k].v
                   ELSE Absent]]
    ELSE [ok |-> FALSE, kind |-> "error", d |-> [k \in keys |-> Absent]]

\* json.loads of a command reply
json_loads(text) == LoadsOver(Keys, text)

(***************************************************************************)
(* Literals of services/voice_agent.py.                                    *)
(***************************************************************************)
update_field == Str(L("update_field"))
toggle_mode == Str(L("toggle_mode"))
navigate == Str(L("navigate"))
execute_action == Str(L("execute_action"))
clarify == Str(L("clarify"))

S_datetime == <<"d", "a", "t", "e", "t", "i", "m", "e">>
S_pdf == <<"p", "d", "f">>
S_generate == <<"g", "e", "n", "e", "r", "a", "t", "e">>
S_edit == <<"e", "d", "i", "t">>
S_preview == <<"p", "r", "e", "v", "i", "e", "w">>
S_mode == <<"m", "o", "d", "e">>
S_generate_pdf == S_generate \o <<"_">> \o S_pdf

\* datetime.now().strftime('%Y-%m-%d %H:%M')
Now == L("<now>")

\* str(e) of the exceptions the resolvers can meet
InvalidFormat == L("Invalid response format from AI")
NoneHasNoGet == L("'NoneType' object has no attribute 'get'")
NoneHasNoLower == L("'NoneType' object has no attribute 'lower'")
KeyError(k) == L("'") \o L(k) \o L("'")
ProviderError == L("<provider error>")

(***************************************************************************)
(* Screen context: None, or a dict.  A field descriptor is a dict whose    *)
(* keys may be missing (Absent).                                           *)
(***************************************************************************)
NoContext ==
    [present |-> FALSE, screenName |-> Absent, mode |-> Absent,
     visibleFields |-> <<>>, currentValues |-> <<>>, availableActions |-> <<>>]

\* ', '.join(strings)
RECURSIVE Join(_, _)
Join(sep, strings) ==
    IF strings = <<>> THEN <<>>
    ELSE IF Len(strings) = 1 THEN strings[1]
    ELSE strings[1] \o sep \o Join(sep, Tail(strings))

\* VoiceAgentService._format_fields
RECURSIVE FormatFieldLines(_, _)
FormatFieldLines(fields, i) ==
    IF i > Len(fields) THEN Return(<<>>)
    ELSE LET field == fields[i]
             synonyms == Join(L(", "), field.synonyms)
             missing == {k \in {"label", "name", "currentValue", "isEditable"} :
                            field[k] = Absent}
             rest == FormatFieldLines(fields, i + 1)
         IN  IF "label" \in missing THEN Raise(KeyError("label"))
             ELSE IF "name" \in missing THEN Raise(KeyError("name"))
             ELSE IF "currentValue" \in missing THEN Raise(KeyError("currentValue"))
             ELSE IF "isEditable" \in missing THEN Raise(KeyError("isEditable"))
             ELSE IF ~rest.ok THEN rest
             ELSE Return((IF i = 1 THEN <<>> ELSE L("\n"))
                         \o L("- ") \o PyStr(field.label)
                         \o L(" ('") \o PyStr(field.name) \o L("'): ")
                         \o L("Current='") \o PyStr(field.currentValue) \o L("', ")
                         \o L("Editable=") \o PyStr(field.isEditable) \o L(", ")
                         \o L("Synonyms=[") \o synonyms \o L("]")
                         \o rest.d)

\* a mutant of _format_fields: a missing key is read with field.get and
\* formatted as None
_format_fields_lenient(fields) ==
    IF fields = <<>> THEN Return(L("No editable fields available"))
    ELSE FormatFieldLines(
             [i \in 1..Len(fields) |->
                 [k \in DOMAIN fields[i] |->
                     IF k # "synonyms" /\ fields[i][k] = Absent
                     THEN Null ELSE fields[i][k]]], 1)

\* VoiceAgentService._format_fields, lines 116-117 and 128
_format_fields(fields) ==
    IF fields = <<>> THEN Return(L("No editable fields available"))
    ELSE FormatFieldLines(fields, 1)

\* VoiceAgentService._format_current_values
RECURSIVE FormatValueLines(_, _)
FormatValueLines(values, i) ==
    IF i > Len(values) THEN <<>>
    ELSE LET value == values[i].value
             display_value ==
                 IF value.t = "str" /\ Len(value.s) > 100
                 THEN SubSeq(value.s, 1, 100) \o L("...")
                 ELSE PyStr(value)
         IN  (IF i = 1 THEN <<>> ELSE L("\n"))
             \o L("- ") \o values[i].key \o L(": '") \o display_value \o L("'")
             \o FormatValueLines(values, i + 1)

_format_current_values(values) ==
    IF values = <<>> THEN L("No current values")
    ELSE FormatValueLines(values, 1)

\* VoiceAgentService._build_command_prompt: the prompt text, or the
\* exception raised while building it
_build_command_prompt(transcript, ctx) ==
    IF ~ctx.present THEN Raise(NoneHasNoGet)
    ELSE LET fields_info == _format_fields(ctx.visibleFields)
             current_values == _format_current_values(ctx.currentValues)
             actions == Join(L(", "), ctx.availableActions)
         IN  IF ~fields_info.ok THEN fields_info
             ELSE Return(
                 L("You are an AI assistant ... via voice commands.\n\nCURRENT SCREEN: ")
                 \o PyStr(GetOr(ctx, "screenName", Str(L("unknown"))))
                 \o L("\nCURRENT MODE: ")
                 \o PyStr(GetOr(ctx, "mode", Str(L("N/A"))))
                 \o L("\n\nAVAILABLE FIELDS:\n") \o fields_info.d
                 \o L("\n\nCURRENT VALUES:\n") \o current_values
                 \o L("\n\nAVAILABLE ACTIONS:\n") \o actions
                 \o L("\n\nUSER COMMAND: ") \o L("\"") \o transcript \o L("\"")
                 \o L("\n\nYour task is ... Rules: ... Examples of good responses: ...\n"))

(***************************************************************************)
(* VoiceAgentService: parse, post-process, error response.                 *)
(***************************************************************************)
required_fields == <<"action", "confidence", "confirmation", "ttsText">>

\* a mutant of valid_actions: the vocabulary of the CommandDecision data model
valid_actions_of_data_model ==
    {update_field, toggle_mode, execute_action, clarify, Str(L("acknowledge")),
     Str(L("explain_capabilities")), Str(L("provide_suggestion"))}

valid_actions == {update_field, toggle_mode, navigate, execute_action, clarify}

\* a mutant of _parse_gpt_response: the end of the slice is the first '}'
\* (find) instead of the last (rfind)
_parse_gpt_response_first_brace(response) ==
    LET start_idx == Find(response, "{")
        end_idx == Find(response, "}") + 1
    IN  IF start_idx = -1 \/ end_idx = 0 THEN Raise(InvalidFormat)
        ELSE LET json_str == Slice(response, start_idx, end_idx)
                 loaded == json_loads(json_str)
             IN  IF ~loaded.ok THEN Raise(InvalidFormat)
                 ELSE IF \E i \in 1..Len(required_fields) :
                             loaded.d[required_fields[i]] = Absent
                 THEN Raise(InvalidFormat)
                 ELSE IF loaded.d.action \notin valid_actions
                 THEN Raise(InvalidFormat)
                 ELSE Return(loaded.d)

\* VoiceAgentService._parse_gpt_response: the parsed dict, or ValueError
_parse_gpt_response(response) ==
    LET start_idx == Find(response, "{")
        end_idx == RFind(response, "}") + 1
    IN  IF start_idx = -1 \/ end_idx = 0 THEN Raise(InvalidFormat)
        ELSE LET json_str == Slice(response, start_idx, end_idx)
                 loaded == json_loads(json_str)
             IN  IF ~loaded.ok THEN Raise(InvalidFormat)
                 ELSE IF \E i \in 1..Len(required_fields) :
                             loaded.d[required_fields[i]] = Absent
                 THEN Raise(InvalidFormat)
                 ELSE IF loaded.d.action \notin valid_actions
                 THEN Raise(InvalidFormat)
                 ELSE Return(loaded.d)

\* next((f['label'] for f in fields if f['name'] == field_name), field_name)
RECURSIVE FieldLabel(_, _, _)
FieldLabel(fields, i, field_name) ==
    IF i > Len(fields) THEN Return(field_name)
    ELSE IF fields[i].name = Absent THEN Raise(KeyError("name"))
    ELSE IF fields[i].name = field_name
    THEN (IF fields[i].label = Absent THEN Raise(KeyError("label"))
          ELSE Return(fields[i].label))
    ELSE FieldLabel(fields, i + 1, field_name)

\* a mutant of EnhanceTimestamp: the timestamp is given to any target
EnhanceTimestampAnyTarget(response) ==
    IF /\ response.action = update_field
       /\ ~Truthy(Get(response, "value"))
    THEN [response EXCEPT
            !.value = Str(Now),
            !.ttsText = Str(L("Added current date and time: ") \o Now)]
    ELSE response

\* lines 202-207: current timestamp for date/time requests
EnhanceTimestamp(response) ==
    IF /\ response.action = update_field
       /\ Get(response, "target") = Str(S_datetime)
       /\ ~Truthy(Get(response, "value"))
    THEN [response EXCEPT
            !.value = Str(Now),
            !.ttsText = Str(L("Added current date and time: ") \o Now)]
    ELSE response

\* a mutant of EnhanceMode: in preview mode every action becomes clarify
EnhanceModeAnyAction(response, current_mode) ==
    IF current_mode = Str(S_preview)
    THEN [response EXCEPT
            !.action = clarify,
            !.clarification =
                Str(L("You're in preview mode. Should I switch to edit mode first?")),
            !.ttsText =
                Str(L("You're in preview mode. Should I switch to edit mode so you can make changes?"))]
    ELSE response

\* a mutant of EnhanceMode: the override also drops the proposed value
EnhanceModeDroppingValue(response, current_mode) ==
    IF response.action = update_field /\ current_mode = Str(S_preview)
    THEN [response EXCEPT
            !.action = clarify,
            !.value = Absent,
            !.clarification =
                Str(L("You're in preview mode. Should I switch to edit mode first?")),
            !.ttsText =
                Str(L("You're in preview mode. Should I switch to edit mode so you can make changes?"))]
    ELSE response

\* lines 209-215: mode-specific enhancement
EnhanceMode(response, current_mode) ==
    IF response.action = update_field /\ current_mode = Str(S_preview)
    THEN [response EXCEPT
            !.action = clarify,
            !.clarification =
                Str(L("You're in preview mode. Should I switch to edit mode first?")),
            !.ttsText =
                Str(L("You're in preview mode. Should I switch to edit mode so you can make changes?"))]
    ELSE response

\* a mutant of EnhanceLabel: the messages are written with the raw key
EnhanceLabelRawKey(response, ctx) ==
    IF response.action = update_field
    THEN LET field_name == Get(response, "target")
             field_label == FieldLabel(ctx.visibleFields, 1, field_name)
         IN  IF ~field_label.ok THEN field_label
             ELSE IF Truthy(Get(response, "value"))
             THEN Return([response EXCEPT
                     !.confirmation =
                         Str(L("Updated ") \o PyStr(field_name) \o L(" to: ")
                             \o PyStr(response.value)),
                     !.ttsText =
                         Str(L("Updated! ") \o PyStr(field_name) \o L(" is now ")
                             \o PyStr(response.value))])
             ELSE Return(response)
    ELSE Return(response)

\* a mutant of EnhanceLabel: an update of a field whose descriptor says
\* isEditable = false is turned into clarify
EnhanceLabelCheckingEditable(response, ctx) ==
    IF response.action = update_field
    THEN LET field_name == Get(response, "target")
             field_label == FieldLabel(ctx.visibleFields, 1, field_name)
             locked == \E i \in 1..Len(ctx.visibleFields) :
                           /\ ctx.visibleFields[i].name = field_name
                           /\ ctx.visibleFields[i].isEditable = Bool(FALSE)
         IN  IF ~field_label.ok THEN field_label
             ELSE IF locked THEN Return([response EXCEPT !.action = clarify])
             ELSE IF Truthy(Get(response, "value"))
             THEN Return([response EXCEPT
                     !.confirmation =
                         Str(L("Updated ") \o PyStr(field_label.d) \o L(" to: ")
                             \o PyStr(response.value)),
                     !.ttsText =
                         Str(L("Updated! ") \o PyStr(field_label.d) \o L(" is now ")
                             \o PyStr(response.value))])
             ELSE Return(response)
    ELSE Return(response)

\* lines 217-225: confirmation messages with field labels
EnhanceLabel(response, ctx) ==
    IF response.action = update_field
    THEN LET field_name == Get(response, "target")
             field_label == FieldLabel(ctx.visibleFields, 1, field_name)
         IN  IF ~field_label.ok THEN field_label
             ELSE IF Truthy(Get(response, "value"))
             THEN Return([response EXCEPT
                     !.confirmation =
                         Str(L("Updated ") \o PyStr(field_label.d) \o L(" to: ")
                             \o PyStr(response.value)),
                     !.ttsText =
                         Str(L("Updated! ") \o PyStr(field_label.d) \o L(" is now ")
                             \o PyStr(response.value))])
             ELSE Return(response)
    ELSE Return(response)

\* a mutant of EnhanceAction: the two mode rules are tried before the
\* pdf/generate rule
EnhanceActionModeFirst(response) ==
    IF response.action = execute_action
    THEN LET raw == GetOr(response, "target", Str(<<>>))
         IN  IF raw.t # "str" THEN Raise(NoneHasNoLower)
             ELSE LET target == Lower(raw.s)
                  IN  IF Contains(S_edit, target) /\ Contains(S_mode, target)
                      THEN Return([response EXCEPT
                              !.action = toggle_mode,
                              !.ttsText = Str(L("Switched to edit mode"))])
                      ELSE IF Contains(S_preview, target) /\ Contains(S_mode, target)
                      THEN Return([response EXCEPT
                              !.action = toggle_mode,
                              !.ttsText = Str(L("Switched to preview mode"))])
                      ELSE IF Contains(S_pdf, target) \/ Contains(S_generate, target)
                      THEN Return([response EXCEPT
                              !.target = Str(S_generate_pdf),
                              !.ttsText = Str(L("Generating your PDF report now"))])
                      ELSE Return(response)
    ELSE Return(response)

\* a mutant of EnhanceAction: a null target is read as the empty string
EnhanceActionNullAsEmpty(response) ==
    IF response.action = execute_action
    THEN LET got == GetOr(response, "target", Str(<<>>))
             raw == IF got.t = "str" THEN got ELSE Str(<<>>)
         IN  LET target == Lower(raw.s)
             IN  IF Contains(S_pdf, target) \/ Contains(S_generate, target)
                 THEN Return([response EXCEPT
                         !.target = Str(S_generate_pdf),
                         !.ttsText = Str(L("Generating your PDF report now"))])
                 ELSE IF Contains(S_edit, target) /\ Contains(S_mode, target)
                 THEN Return([response EXCEPT
                         !.action = toggle_mode,
                         !.ttsText = Str(L("Switched to edit mode"))])
                 ELSE IF Contains(S_preview, target) /\ Contains(S_mode, target)
                 THEN Return([response EXCEPT
                         !.action = toggle_mode,
                         !.ttsText = Str(L("Switched to preview mode"))])
                 ELSE Return(response)
    ELSE Return(response)

\* lines 227-238: common action mappings
EnhanceAction(response) ==
    IF response.action = execute_action
    THEN LET raw == GetOr(response, "target", Str(<<>>))
         IN  IF raw.t # "str" THEN Raise(NoneHasNoLower)
             ELSE LET target == Lower(raw.s)
                  IN  IF Contains(S_pdf, target) \/ Contains(S_generate, target)
                      THEN Return([response EXCEPT
                              !.target = Str(S_generate_pdf),
                              !.ttsText = Str(L("Generating your PDF report now"))])
                      ELSE IF Contains(S_edit, target) /\ Contains(S_mode, target)
                      THEN Return([response EXCEPT
                              !.action = toggle_mode,
                              !.ttsText = Str(L("Switched to edit mode"))])
                      ELSE IF Contains(S_preview, target) /\ Contains(S_mode, target)
                      THEN Return([response EXCEPT
                              !.action = toggle_mode,
                              !.ttsText = Str(L("Switched to preview mode"))])
                      ELSE Return(response)
    ELSE Return(response)

\* VoiceAgentService._enhance_response
_enhance_response(response, ctx) ==
    LET r1 == EnhanceTimestamp(response)
    IN  IF ~ctx.present THEN Raise(NoneHasNoGet)
        ELSE LET r2 == EnhanceMode(r1, Get(ctx, "mode"))
                 r3 == EnhanceLabel(r2, ctx)
             IN  IF ~r3.ok THEN r3 ELSE EnhanceAction(r3.d)

\* VoiceAgentService._create_error_response
_create_error_response(error_message) ==
    [EmptyDict EXCEPT
        !.action = clarify,
        !.confidence = Num(0),
        !.clarification =
            Str(L("I couldn't understand that command. Could you try again?")),
        !.confirmation = Str(L("Error: ") \o error_message),
        !.ttsText = Str(L("I didn't catch that. Could you please try again?"))]

\* VoiceAgentService.process_voice_command, lines 40-47: from the provider's
\* reply to the enhanced response, or to the exception parse or enhance raised
ResolveReply(response, ctx) ==
    LET parsed_response == _parse_gpt_response(response)
    IN  IF ~parsed_response.ok THEN parsed_response
        ELSE _enhance_response(parsed_response.d, ctx)

\* a mutant of HandleException: "except ValueError", so that only a rejected
\* reply becomes the error response and any other exception escapes
HandleValueErrorOnly(outcome) ==
    IF outcome.ok THEN [raised |-> FALSE, d |-> outcome.d]
    ELSE IF outcome.err = InvalidFormat
    THEN [raised |-> FALSE, d |-> _create_error_response(outcome.err)]
    ELSE [raised |-> TRUE, d |-> EmptyDict]

\* VoiceAgentService.process_voice_command, lines 33 and 49-51: the try block
\* returns its value, "except Exception" turns any exception into the error
\* response
HandleException(outcome) ==
    IF outcome.ok THEN [raised |-> FALSE, d |-> outcome.d]
    ELSE [raised |-> FALSE, d |-> _create_error_response(outcome.err)]

(***************************************************************************)
(* POST /voice-command of main.py: parse and build the response model.     *)
(***************************************************************************)
\* "audio file too large" limit, in MB
MaxAudioMB == 25

\* VoiceCommandResponse(...) validation by pydantic: a str field takes a str,
\* a float field a number or a numeric string, an Optional field also None
IsStr(v) == v.t = "str"
S_0_9 == <<"0", ".", "9">>
IsFloat(v) == v.t = "num" \/ v = Str(S_0_9)
AsFloat(v) == IF v.t = "num" THEN v ELSE Num(90)
IsOptStr(v) == v.t \in {"str", "null"}

\* str(e) of the exceptions the handlers of main.py can meet
ClientNotConfigured == L("500: OpenAI client not configured")
AudioTooLarge == L("400: Audio file too large")
InvalidBase64 == L("Incorrect padding")
WriteFailed == L("<OSError of temp_file.write>")
UnlinkFailed == L("<OSError of os.unlink>")

ProcessingErrorResponse ==
    [EmptyDict EXCEPT
        !.action = clarify,
        !.target = Null,
        !.value = Null,
        !.confidence = Num(0),
        !.clarification =
            Str(L("I had trouble understanding that. Could you try again?")),
        !.confirmation = Str(L("Processing error")),
        !.ttsText =
            Str(L("Sorry, I had trouble understanding that. Could you try again?")),
        !.metadata = Null]

SystemErrorResponse ==
    [EmptyDict EXCEPT
        !.action = clarify,
        !.target = Null,
        !.value = Null,
        !.confidence = Num(0),
        !.clarification = Str(L("Something went wrong. Please try again.")),
        !.confirmation = Str(L("System error")),
        !.ttsText =
            Str(L("Sorry, something went wrong on my end. Could you try that again?")),
        !.metadata = Null]

\* a mutant of EndpointOuterExcept: HTTPException is re-raised, as the
\* handler of POST /transcribe does
EndpointOuterExceptReraisingHTTP(e) ==
    IF e \in {ClientNotConfigured, AudioTooLarge}
    THEN [raised |-> TRUE, d |-> EmptyDict]
    ELSE [raised |-> FALSE, d |-> SystemErrorResponse]

\* main.py lines 389-397: "except Exception" of process_voice_command
EndpointOuterExcept(e) == [raised |-> FALSE, d |-> SystemErrorResponse]

\* current_values.get(name, 'empty')
CurrentValueOf(values, name) ==
    IF \E i \in 1..Len(values) : Str(values[i].key) = name
    THEN values[CHOOSE i \in 1..Len(values) : Str(values[i].key) = name].value
    ELSE Str(L("empty"))

\* main.py lines 281-334: the endpoint's prompt
RECURSIVE EndpointFieldLines(_, _, _)
EndpointFieldLines(fields, values, i) ==
    IF i > Len(fields) THEN <<>>
    ELSE (IF i = 1 THEN <<>> ELSE L("\n"))
         \o L("- ") \o PyStr(GetOr(fields[i], "name", Str(<<>>)))
         \o L(": ") \o PyStr(GetOr(fields[i], "label", Str(<<>>)))
         \o L(" (current: '")
         \o PyStr(CurrentValueOf(values, GetOr(fields[i], "name", Str(<<>>))))
         \o L("')")
         \o EndpointFieldLines(fields, values, i + 1)

EndpointPrompt(transcript, ctx) ==
    L("You are Sam, ... report app.\n\nCONTEXT:\n- Current screen: ")
    \o PyStr(GetOr(ctx, "screenName", Str(L("unknown"))))
    \o L("\n- User said: ") \o L("\"") \o transcript \o L("\"")
    \o L("\n\nAVAILABLE FIELDS:\n") \o EndpointFieldLines(ctx.visibleFields, ctx.currentValues, 1)
    \o L("\n\nAVAILABLE ACTIONS: ") \o Join(L(", "), ctx.availableActions)
    \o L("\n\nYour task is ... Respond with JSON: ... ttsText responses!")

\* main.py lines 351-356: json.loads and the check for 'action'
EndpointParse(response_text) ==
    LET loaded == json_loads(response_text)
    IN  IF ~loaded.ok THEN Raise(L("JSONDecodeError"))
        ELSE IF loaded.kind # "dict" THEN Raise(L("not an object"))
        ELSE IF loaded.d.action = Absent THEN Raise(L("Missing 'action' field"))
        ELSE Return(loaded.d)

\* main.py lines 350-397: from the provider's reply to the returned response
EndpointReply(response_text, transcript) ==
    LET p == EndpointParse(response_text)
        response_data == p.d
        action == GetOr(response_data, "action", Str(L("acknowledge")))
        confidence == GetOr(response_data, "confidence", Num(80))
        confirmation == GetOr(response_data, "confirmation", Str(L("Command processed")))
        ttsText == GetOr(response_data, "ttsText", Str(L("Got it!")))
    IN  IF ~p.ok
        THEN (IF p.err = L("JSONDecodeError") THEN ProcessingErrorResponse
              ELSE SystemErrorResponse)
        ELSE IF ~(/\ IsStr(action)
                  /\ IsOptStr(Get(response_data, "target"))
                  /\ IsOptStr(Get(response_data, "value"))
                  /\ IsFloat(confidence)
                  /\ IsOptStr(Get(response_data, "clarification"))
                  /\ IsStr(confirmation)
                  /\ IsStr(ttsText))
        THEN SystemErrorResponse
        ELSE [EmptyDict EXCEPT
                !.action = action,
                !.target = Get(response_data, "target"),
                !.value = Get(response_data, "value"),
                !.confidence = AsFloat(confidence),
                !.clarification = Get(response_data, "clarification"),
                !.confirmation = confirmation,
                !.ttsText = ttsText,
                !.metadata = Str(L("transcription=") \o transcript
                                 \o L(", processingTime=1.0, modelUsed=gpt-4"))]

(***************************************************************************)
(* Summaries: SummarizationService (services/summarization.py) and the     *)
(* POST /summarize handler summarize_text (main.py).                       *)
(***************************************************************************)
SummaryKeys == {"taskDescription", "location", "datetime", "outcome", "notes"}

required_summary_fields ==
    <<"taskDescription", "location", "datetime", "outcome", "notes">>

EmptySummary == [k \in SummaryKeys |-> Absent]

\* the value a summarizer returns under 'summary': a dict or, from
\* summarize_text, whatever json.loads gave
SummaryDict(d) == [kind |-> "dict", d |-> d]
SummaryScalar == [kind |-> "scalar", d |-> EmptySummary]
NoSummary == [kind |-> "none", d |-> EmptySummary]

\* tokens of a summary reply besides braces, words and members: the
\* markdown code fence (three backquotes), bare or followed by "json", and
\* white space
Fence == [k |-> "fence", v |-> Absent]
FenceJson == [k |-> "fence json", v |-> Absent]
Space == [k |-> " ", v |-> Absent]

\* json.dumps of a summary object
RECURSIVE EncodeSummaryFrom(_, _)
EncodeSummaryFrom(d, i) ==
    IF i > Len(required_summary_fields) THEN <<>>
    ELSE (IF d[required_summary_fields[i]] = Absent THEN <<>>
          ELSE <<Member(required_summary_fields[i], d[required_summary_fields[i]])>>)
         \o EncodeSummaryFrom(d, i + 1)

EncodeSummary(d) == <<LB>> \o EncodeSummaryFrom(d, 1) \o <<RB>>

\* str.strip(): s without the leading and trailing occurrences of ws
RECURSIVE LStrip(_, _)
LStrip(s, ws) == IF s # <<>> /\ s[1] = ws THEN LStrip(Tail(s), ws) ELSE s

RECURSIVE RStrip(_, _)
RStrip(s, ws) ==
    IF s # <<>> /\ s[Len(s)] = ws THEN RStrip(SubSeq(s, 1, Len(s) - 1), ws) ELSE s

Strip(s, ws) == RStrip(LStrip(s, ws), ws)

\* json.loads of a summary reply; white space around the document is skipped
summary_loads(text) == LoadsOver(SummaryKeys, Strip(text, Space))

\* str(e) of the exceptions the summarizers can meet
TooShort == L("Transcription text too short to summarize")
FailedToParse == L("Failed to parse AI response")
NotIterable == L("argument of type 'int' is not iterable")
NoneHasNoStrip == L("'NoneType' object has no attribute 'strip'")
SummarizationFailed == L("Summarization failed: ")

\* summarization.py line 31: the shortest stripped transcript that is
\* summarized, and line 128: the longest transcript copied whole
MinSummaryChars == 10
FallbackChars == 200

\* summarization.py lines 98-101: markdown code fences are removed
RemoveFences(summary_text) ==
    IF summary_text # <<>> /\ summary_text[1] = FenceJson
    THEN Strip(SelectSeq(summary_text, LAMBDA tok : tok \notin {Fence, FenceJson}),
               Space)
    ELSE IF summary_text # <<>> /\ summary_text[1] = Fence
    THEN Strip(SelectSeq([i \in 1..Len(summary_text) |->
                              IF summary_text[i] = FenceJson THEN Word
                              ELSE summary_text[i]],
                         LAMBDA tok : tok # Fence),
               Space)
    ELSE summary_text

\* a mutant of _parse_summary_response: the decoded object is returned as
\* it is, no key added and no taskDescription substituted
_parse_summary_response_as_decoded(summary_text) ==
    LET loaded == summary_loads(RemoveFences(summary_text))
    IN  IF ~loaded.ok THEN Raise(FailedToParse)
        ELSE IF loaded.kind # "dict" THEN Raise(NotIterable)
        ELSE Return(loaded.d)

\* SummarizationService._parse_summary_response: the summary dict, ValueError
\* for invalid JSON, or the TypeError of "field not in" on a non-container
_parse_summary_response(summary_text) ==
    LET loaded == summary_loads(RemoveFences(summary_text))
        filled == [k \in SummaryKeys |-> Get(loaded.d, k)]
    IN  IF ~loaded.ok THEN Raise(FailedToParse)
        ELSE IF loaded.kind # "dict" THEN Raise(NotIterable)
        ELSE IF ~Truthy(filled.taskDescription)
        THEN Return([filled EXCEPT
                        !.taskDescription = Str(L("Work activity completed"))])
        ELSE Return(filled)

\* a mutant of _create_fallback_summary: the transcript is copied whole
_create_fallback_summary_whole(transcript) ==
    [EmptySummary EXCEPT
        !.taskDescription = Str(transcript),
        !.location = Null,
        !.datetime = Null,
        !.outcome = Str(L("Summary generation failed - manual review needed")),
        !.notes =
            Str(L("AI was unable to parse this transcription into structured format"))]

\* SummarizationService._create_fallback_summary
_create_fallback_summary(transcript) ==
    [EmptySummary EXCEPT
        !.taskDescription =
            Str(IF Len(transcript) > FallbackChars
                THEN SubSeq(transcript, 1, FallbackChars) \o L("...")
                ELSE transcript),
        !.location = Null,
        !.datetime = Null,
        !.outcome = Str(L("Summary generation failed - manual review needed")),
        !.notes =
            Str(L("AI was unable to parse this transcription into structured format"))]

\* a mutant of TranscriptionAccepted: the length is taken without strip()
TranscriptionAcceptedUnstripped(transcript) ==
    transcript # <<>> /\ Len(transcript) >= MinSummaryChars

\* SummarizationService.generate_summary, line 31: the transcript is not
\* rejected
TranscriptionAccepted(transcript) ==
    transcript # <<>> /\ Len(Strip(transcript, " ")) >= MinSummaryChars

\* SummarizationService._get_user_prompt
_get_user_prompt(transcript) ==
    L("Please analyze this work activity transcription and provide a structured summary:\n\nTranscription: ")
    \o L("\"") \o transcript \o L("\"")
    \o L("\n\nReturn your response as a valid JSON object with the fields: ... notes.")

\* SummarizationService.generate_summary, lines 40-70: from the provider's
\* outcome to the returned summary; "except Exception" returns the fallback
GenerateSummaryOf(transcript, outcome) ==
    LET summary_data ==
            IF outcome.kind = "exception" THEN Raise(ProviderError)
            ELSE IF outcome.kind = "null" THEN Raise(NoneHasNoStrip)
            ELSE _parse_summary_response(Strip(outcome.text, Space))
    IN  IF summary_data.ok THEN SummaryDict(summary_data.d)
        ELSE SummaryDict(_create_fallback_summary(transcript))

\* main.py lines 486-496: the fallback of summarize_text
SummarizeTextFallback(transcript) ==
    [EmptySummary EXCEPT
        !.taskDescription =
            Str(IF Len(transcript) > FallbackChars
                THEN SubSeq(transcript, 1, FallbackChars) \o L("...")
                ELSE transcript),
        !.location = Null,
        !.datetime = Null,
        !.outcome = Null,
        !.notes = Str(L("Auto-generated from transcription"))]

\* main.py lines 471-500: from the provider's outcome to the returned
\* summary, or to the HTTPException of the outer handler
SummarizeTextOf(transcript, outcome) ==
    IF outcome.kind = "exception" THEN Raise(SummarizationFailed \o ProviderError)
    ELSE IF outcome.kind = "null"
    THEN Raise(SummarizationFailed \o L("the JSON object must be str, not NoneType"))
    ELSE LET loaded == summary_loads(outcome.text)
         IN  IF ~loaded.ok
             THEN Return(SummaryDict(SummarizeTextFallback(transcript)))
             ELSE IF loaded.kind = "dict" THEN Return(SummaryDict(loaded.d))
             ELSE Return(SummaryScalar)

(***************************************************************************)
(* Transcription: TranscriptionService.transcribe_audio                    *)
(* (services/transcription.py) and the POST /transcribe handler            *)
(* transcribe_audio (main.py).  The file system may fail a write or an     *)
(* unlink; a failed write leaves the file that NamedTemporaryFile created. *)
(***************************************************************************)
\* config.py lines 24-25
max_audio_size_mb == 25
supported_audio_formats == {"m4a", "mp4", "wav", "mp3", "webm"}

\* transcription.py lines 34-52: the message of the ValueError raised by the
\* checks, <<>> when they pass
TranscriptionServiceChecks(a) ==
    IF a.empty THEN L("No audio data provided")
    ELSE IF a.format \notin supported_audio_formats
    THEN L("Unsupported audio format: ") \o L(a.format)
    ELSE IF ~a.b64ok THEN L("Invalid base64 audio data")
    ELSE IF a.sizeMB > max_audio_size_mb THEN L("Audio file too large")
    ELSE <<>>

\* main.py lines 173-190: the detail of the HTTPException raised by the
\* checks, <<>> when they pass
TranscribeEndpointChecks(a, client) ==
    IF a.empty THEN L("400: Audio data is required")
    ELSE IF ~client THEN ClientNotConfigured
    ELSE IF ~a.b64ok THEN L("400: Invalid base64 audio data")
    ELSE IF a.sizeMB > MaxAudioMB THEN AudioTooLarge
    ELSE <<>>

\* main.py line 193
file_extension(a) ==
    IF a.format \in {"m4a", "mp3", "wav", "mp4", "webm"} THEN a.format ELSE "m4a"

\* the dict a transcription returns
TranscriptionResult(t, format) == [transcription |-> t, audio_format |-> format]

(***************************************************************************)
(* Inputs: transcripts, screen contexts, audio, provider replies.          *)
(***************************************************************************)
S_location == <<"l", "o", "c", "a", "t", "i", "o", "n">>
S_Location == <<"L", "o", "c", "a", "t", "i", "o", "n">>
S_place == <<"p", "l", "a", "c", "e">>
S_where == <<"w", "h", "e", "r", "e">>
S_bogus == <<"b", "o", "g", "u", "s">>
S_office == <<"O", "f", "f", "i", "c", "e">>
S_high == <<"h", "i", "g", "h">>
S_save == <<"s", "a", "v", "e">>
S_Make_PDF == <<"M", "a", "k", "e", " ", "P", "D", "F">>
S_edit_mode == S_edit \o <<" ">> \o S_mode
S_preview_mode == S_preview \o <<" ">> \o S_mode
S_generate_edit_mode == S_generate \o <<" ">> \o S_edit_mode

Transcripts == {Repeat("a", n) : n \in 0..MaxTranscript}

LocationField ==
    [name |-> Str(S_location), label |-> Str(S_Location),
     currentValue |-> Str(L("HQ")), isEditable |-> Bool(TRUE),
     synonyms |-> <<S_place, S_where>>]

DatetimeField ==
    [name |-> Str(S_datetime), label |-> Str(L("Date and Time")),
     currentValue |-> Str(<<>>), isEditable |-> Bool(TRUE),
     synonyms |-> <<>>]

\* a descriptor the client sent without its label
UnlabelledField == [LocationField EXCEPT !.label = Absent]

Ctx(mode, fields) ==
    [present |-> TRUE, screenName |-> Str(L("closeout")), mode |-> mode,
     visibleFields |-> fields,
     currentValues |-> <<[key |-> S_location, value |-> Str(L("HQ"))]>>,
     availableActions |-> <<S_generate_pdf, S_save>>]

Modes == {Str(S_edit), Str(S_preview), Absent}

Contexts ==
    {Ctx(m, <<LocationField, DatetimeField>>) : m \in Modes}
    \cup {Ctx(Str(S_edit), <<>>), Ctx(Str(S_edit), <<UnlabelledField>>)}

\* what the service can be called with: a dict or None
ServiceContexts == Contexts \cup {NoContext}

NoAudio == [b64ok |-> TRUE, sizeMB |-> 0]
Audios == {[b64ok |-> TRUE, sizeMB |-> 1], [b64ok |-> TRUE, sizeMB |-> MaxAudioMB + 1],
           [b64ok |-> FALSE, sizeMB |-> 0]}

\* JSON objects a provider may send
Obj(action, target, value, confidence, clarification) ==
    [EmptyDict EXCEPT
        !.action = action, !.target = target, !.value = value,
        !.confidence = confidence, !.clarification = clarification,
        !.confirmation = Str(L("Done")), !.ttsText = Str(L("Okay"))]

Confidences == {Num(30), Num(70), Num(92)}
Clarifications == {Absent, Str(L("Which field did you mean?"))}

UpdateProposals ==
    {Obj(update_field, t, v, c, q) :
        t \in {Absent, Str(S_location), Str(S_Location), Str(S_place),
               Str(S_datetime), Str(S_bogus)},
        v \in {Absent, Str(<<>>), Str(S_office)},
        c \in Confidences \cup {Str(S_high)},
        q \in Clarifications}

ExecuteProposals ==
    {Obj(execute_action, t, Absent, c, Absent) :
        t \in {Absent, Null, Str(S_generate_pdf), Str(S_Make_PDF), Str(S_edit_mode),
               Str(S_preview_mode), Str(S_generate_edit_mode), Str(S_save)},
        c \in {Num(30), Num(92)}}

OtherActions ==
    {toggle_mode, navigate, clarify, Str(L("acknowledge")),
     Str(L("explain_capabilities")), Str(L("provide_suggestion")),
     Str(L("dance")), Null}

OtherProposals ==
    {Obj(a, Absent, Absent, c, q) :
        a \in OtherActions,
        c \in {Num(30), Num(92), Str(S_high), Str(S_0_9)},
        q \in Clarifications}

\* d without the keys in ks
Without(d, ks) == [k \in Keys |-> IF k \in ks THEN Absent ELSE d[k]]

BaseProposal == Obj(update_field, Str(S_place), Str(S_office), Num(92), Absent)

IncompleteProposals ==
    {Without(p, ks) :
        p \in {BaseProposal, Obj(Str(L("acknowledge")), Absent, Absent, Num(92), Absent)},
        ks \in (SUBSET {"action", "confidence", "confirmation", "ttsText"}) \ {{}}}

Proposals ==
    UpdateProposals \cup ExecuteProposals \cup OtherProposals
    \cup IncompleteProposals

\* prose around the object: words and stray braces
Prose == SeqsUpTo({Word, LB, RB}, MaxProse)

\* reply texts of the provider
ReplyTexts ==
    {Encode(p) : p \in Proposals}
    \cup {lead \o Encode(BaseProposal) \o trail : lead \in Prose, trail \in Prose}
    \cup {<<>>, <<Word>>, <<Scalar>>, <<LB, Word, RB>>, <<RB, Word, LB>>}

NoReply == [kind |-> "none", text |-> <<>>]
NoParse == [ok |-> FALSE, err |-> L("<not parsed>"), d |-> EmptyDict]
NoSynthetic == [lead |-> <<>>, d |-> EmptyDict, trail |-> <<>>]

\* transcripts given to a summarizer: around the two limits, with and
\* without white space at the ends
SummaryLengths ==
    {0, MinSummaryChars - 1, MinSummaryChars, FallbackChars - 1, FallbackChars,
     MaxSummaryChars}

SummaryTranscripts ==
    {Repeat(" ", p) \o Repeat("a", n) \o Repeat(" ", q) :
        p \in 0..1, q \in 0..1, n \in SummaryLengths}

\* audio given to a transcriber: valid in three formats, empty, not base64,
\* over the limit
TranscribeAudios ==
    {[empty |-> FALSE, b64ok |-> TRUE, sizeMB |-> 1, format |-> f] :
        f \in {"m4a", "webm", "ogg"}}
    \cup {[empty |-> TRUE, b64ok |-> TRUE, sizeMB |-> 0, format |-> "m4a"],
          [empty |-> FALSE, b64ok |-> FALSE, sizeMB |-> 0, format |-> "m4a"],
          [empty |-> FALSE, b64ok |-> TRUE, sizeMB |-> max_audio_size_mb + 1,
           format |-> "m4a"]}

\* JSON objects a provider may send as a summary
FullSummary ==
    [taskDescription |-> Str(L("Replaced faulty network switch")),
     location |-> Str(L("Server Room")),
     datetime |-> Null,
     outcome |-> Str(L("Successfully completed")),
     notes |-> Absent]

SummaryObjects ==
    {FullSummary, EmptySummary,
     [FullSummary EXCEPT !.taskDescription = Str(<<>>)],
     [FullSummary EXCEPT !.taskDescription = Null],
     [FullSummary EXCEPT !.taskDescription = Absent],
     [EmptySummary EXCEPT !.taskDescription = Str(L("Checked the rack"))]}

SummaryReplyTexts ==
    {EncodeSummary(o) : o \in SummaryObjects}
    \cup {lead \o EncodeSummary(FullSummary) \o trail : lead \in Prose, trail \in Prose}
    \cup {<<FenceJson, Space>> \o EncodeSummary(FullSummary) \o <<Space, Fence>>,
          <<Fence>> \o EncodeSummary(FullSummary) \o <<Fence>>,
          <<Space>> \o EncodeSummary(FullSummary) \o <<Space>>,
          <<Fence, Word, Fence>>, <<>>, <<Word>>, <<Scalar>>}

\* what the provider's message holds: a text, or None
SummaryReplies ==
    {[kind |-> "text", text |-> t] : t \in SummaryReplyTexts}
    \cup {[kind |-> "null", text |-> <<>>]}

(***************************************************************************)
(* The resolvers as a state machine: one request at a time.                *)
(***************************************************************************)
\* no call of wait_for_ngrok in progress
NoNgrok ==
    [pc |-> "idle", max_attempts |-> 0, attempt |-> 0, responses |-> <<>>,
     url |-> Null]

Idle ==
    /\ pc = "idle"
    /\ impl = "none"
    /\ audio = NoAudio
    /\ transcription = <<>>
    /\ screen_context = NoContext
    /\ prompt = <<>>
    /\ reply = NoReply
    /\ parsed = NoParse
    /\ result = EmptyDict
    /\ raised = FALSE
    /\ gptCalls = 0
    /\ whisperCalls = 0
    /\ synthetic = NoSynthetic
    /\ summary = NoSummary
    /\ error = <<>>
    /\ staged = "none"
    /\ ngrok = NoNgrok

Init ==
    /\ openai_client \in BOOLEAN
    /\ tempFiles = 0
    /\ requests = <<>>
    /\ files = {}
    /\ Idle

\* VoiceAgentService.process_voice_command up to the provider call: the
\* prompt is built and the call is made, or building fails and the error
\* response is returned
ServiceRequest(t, ctx) ==
    /\ pc = "idle"
    /\ impl' = "service"
    /\ transcription' = t
    /\ screen_context' = ctx
    /\ LET p == _build_command_prompt(t, ctx)
       IN  IF p.ok
           THEN /\ prompt' = p.d
                /\ gptCalls' = gptCalls + 1
                /\ pc' = "await_gpt"
                /\ UNCHANGED result
                /\ UNCHANGED raised
           ELSE /\ result' = HandleException(p).d
                /\ raised' = HandleException(p).raised
                /\ pc' = "done"
                /\ UNCHANGED <<prompt, gptCalls>>
    /\ UNCHANGED <<openai_client, audio, reply, parsed, whisperCalls,
                   tempFiles, synthetic,
                   summary, error, staged, requests, files, ngrok>>

\* the provider replies: parse, enhance, return
ServiceGptReturns(text) ==
    /\ pc = "await_gpt"
    /\ impl = "service"
    /\ reply' = [kind |-> "text", text |-> text]
    /\ parsed' = _parse_gpt_response(text)
    /\ result' = HandleException(ResolveReply(text, screen_context)).d
    /\ raised' = HandleException(ResolveReply(text, screen_context)).raised
    /\ pc' = "done"
    /\ UNCHANGED <<openai_client, impl, audio, transcription, screen_context,
                   prompt, gptCalls, whisperCalls, tempFiles, synthetic,
                   summary, error, staged, requests, files, ngrok>>

\* the provider call raises: lines 164-166 re-raise, lines 49-51 catch
ServiceGptRaises ==
    /\ pc = "await_gpt"
    /\ impl = "service"
    /\ reply' = [kind |-> "exception", text |-> <<>>]
    /\ result' = HandleException(Raise(ProviderError)).d
    /\ raised' = HandleException(Raise(ProviderError)).raised
    /\ pc' = "done"
    /\ UNCHANGED <<openai_client, impl, audio, transcription, screen_context,
                   prompt, parsed, gptCalls, whisperCalls, tempFiles, synthetic,
                   summary, error, staged, requests, files, ngrok>>

\* POST /voice-command up to the speech-provider call (main.py 240-265).
\* The checks raise into the outer handler.  The temporary file is created
\* and written before the inner try block: when the write fails the file
\* stays and the outer handler answers.
EndpointRequest(a, ctx, write_ok) ==
    /\ pc = "idle"
    /\ tempFiles < MaxTempFiles
    /\ impl' = "endpoint"
    /\ audio' = a
    /\ screen_context' = ctx
    /\ LET e == IF ~openai_client THEN ClientNotConfigured
                ELSE IF ~a.b64ok THEN InvalidBase64
                ELSE IF a.sizeMB > MaxAudioMB THEN AudioTooLarge
                ELSE IF ~write_ok THEN WriteFailed
                ELSE <<>>
       IN  IF e # <<>>
           THEN /\ result' = EndpointOuterExcept(e).d
                /\ raised' = EndpointOuterExcept(e).raised
                /\ error' = e
                /\ pc' = "done"
                /\ tempFiles' = IF e = WriteFailed THEN tempFiles + 1 ELSE tempFiles
                /\ staged' = IF e = WriteFailed THEN "exists" ELSE "none"
                /\ UNCHANGED whisperCalls
           ELSE /\ tempFiles' = tempFiles + 1
                /\ staged' = "exists"
                /\ whisperCalls' = whisperCalls + 1
                /\ pc' = "await_whisper"
                /\ UNCHANGED <<result, raised, error>>
    /\ UNCHANGED <<openai_client, transcription, prompt, reply, parsed,
                   gptCalls, synthetic, summary, requests, files, ngrok>>

\* the transcript arrives (main.py 266-345): unlink the file, build the
\* prompt, call the text-inference provider.  When os.unlink raises, the
\* inner handler (383-387) tries once more and the outer handler answers.
EndpointWhisperReturns(t, unlink_ok, retry_ok) ==
    /\ pc = "await_whisper"
    /\ transcription' = t
    /\ IF unlink_ok
       THEN /\ tempFiles' = tempFiles - 1
            /\ staged' = "removed"
            /\ prompt' = EndpointPrompt(t, screen_context)
            /\ gptCalls' = gptCalls + 1
            /\ pc' = "await_gpt"
            /\ UNCHANGED <<result, raised, error>>
       ELSE /\ tempFiles' = IF retry_ok THEN tempFiles - 1 ELSE tempFiles
            /\ staged' = IF retry_ok THEN "removed" ELSE "exists"
            /\ result' = EndpointOuterExcept(UnlinkFailed).d
            /\ raised' = EndpointOuterExcept(UnlinkFailed).raised
            /\ error' = UnlinkFailed
            /\ pc' = "done"
            /\ UNCHANGED <<prompt, gptCalls>>
    /\ UNCHANGED <<openai_client, impl, audio, screen_context, reply, parsed,
                   whisperCalls, synthetic, summary, requests, files, ngrok>>

\* the speech provider raises (main.py 383-397): the inner handler unlinks
\* the file, which may fail, and the outer handler answers
EndpointWhisperRaises(unlink_ok) ==
    /\ pc = "await_whisper"
    /\ tempFiles' = IF unlink_ok THEN tempFiles - 1 ELSE tempFiles
    /\ staged' = IF unlink_ok THEN "removed" ELSE "exists"
    /\ result' = EndpointOuterExcept(ProviderError).d
    /\ raised' = EndpointOuterExcept(ProviderError).raised
    /\ error' = ProviderError
    /\ pc' = "done"
    /\ UNCHANGED <<openai_client, impl, audio, transcription, screen_context,
                   prompt, reply, parsed, gptCalls, whisperCalls, synthetic,
                   summary, requests, files, ngrok>>

\* the text-inference provider replies: main.py 347-381
EndpointGptReturns(text) ==
    /\ pc = "await_gpt"
    /\ impl = "endpoint"
    /\ reply' = [kind |-> "text", text |-> text]
    /\ parsed' = EndpointParse(text)
    /\ result' = EndpointReply(text, transcription)
    /\ pc' = "done"
    /\ UNCHANGED <<openai_client, impl, audio, transcription, screen_context,
                   prompt, raised, gptCalls, whisperCalls, tempFiles, synthetic,
                   summary, error, staged, requests, files, ngrok>>

\* the text-inference provider raises: main.py 383-397, the file is gone
EndpointGptRaises ==
    /\ pc = "await_gpt"
    /\ impl = "endpoint"
    /\ reply' = [kind |-> "exception", text |-> <<>>]
    /\ result' = SystemErrorResponse
    /\ pc' = "done"
    /\ UNCHANGED <<openai_client, impl, audio, transcription, screen_context,
                   prompt, parsed, raised, gptCalls, whisperCalls, tempFiles,
                   synthetic,
                   summary, error, staged, requests, files, ngrok>>

\* the response is sent; the next request starts from nothing
Finish ==
    /\ pc = "done"
    /\ pc' = "idle"
    /\ impl' = "none"
    /\ audio' = NoAudio
    /\ transcription' = <<>>
    /\ screen_context' = NoContext
    /\ prompt' = <<>>
    /\ reply' = NoReply
    /\ parsed' = NoParse
    /\ result' = EmptyDict
    /\ raised' = FALSE
    /\ gptCalls' = 0
    /\ whisperCalls' = 0
    /\ error' = <<>>
    /\ staged' = "none"
    /\ UNCHANGED <<openai_client, tempFiles, synthetic, summary, requests, files,
            ngrok>>

Next ==
    \/ \E t \in Transcripts, ctx \in ServiceContexts : ServiceRequest(t, ctx)
    \/ \E text \in ReplyTexts : ServiceGptReturns(text)
    \/ ServiceGptRaises
    \/ \E a \in Audios, ctx \in Contexts, write_ok \in BOOLEAN :
           EndpointRequest(a, ctx, write_ok)
    \/ \E t \in Transcripts, unlink_ok \in BOOLEAN, retry_ok \in BOOLEAN :
           EndpointWhisperReturns(t, unlink_ok, retry_ok)
    \/ \E unlink_ok \in BOOLEAN : EndpointWhisperRaises(unlink_ok)
    \/ \E text \in ReplyTexts : EndpointGptReturns(text)
    \/ EndpointGptRaises
    \/ Finish

Spec == Init /\ [][Next]_vars

(***************************************************************************)
(* The parser alone: _parse_gpt_response applied to a synthetic reply made *)
(* of prose, an encoded object and prose.                                  *)
(***************************************************************************)
Synthetics == [lead : Prose, d : Proposals, trail : Prose]

ParseInit ==
    /\ openai_client = TRUE
    /\ tempFiles = 0
    /\ pc = "parse_input"
    /\ impl = "parser"
    /\ audio = NoAudio
    /\ transcription = <<>>
    /\ screen_context = NoContext
    /\ prompt = <<>>
    /\ reply = NoReply
    /\ parsed = NoParse
    /\ result = EmptyDict
    /\ raised = FALSE
    /\ gptCalls = 0
    /\ whisperCalls = 0
    /\ summary = NoSummary
    /\ error = <<>>
    /\ staged = "none"
    /\ requests = <<>>
    /\ files = {}
    /\ synthetic \in Synthetics
    /\ ngrok = NoNgrok

ParseApply ==
    /\ pc = "parse_input"
    /\ reply' = [kind |-> "text",
                 text |-> synthetic.lead \o Encode(synthetic.d) \o synthetic.trail]
    /\ parsed' = _parse_gpt_response(reply'.text)
    /\ pc' = "parse_done"
    /\ UNCHANGED <<openai_client, impl, audio, transcription, screen_context,
                   prompt, result, raised, gptCalls, whisperCalls, tempFiles,
                   synthetic,
                   summary, error, staged, requests, files, ngrok>>

ParseNext == ParseApply

ParseSpec == ParseInit /\ [][ParseNext]_vars

(***************************************************************************)
(* The summarizers as a state machine: one request at a time.              *)
(***************************************************************************)
\* SummarizationService.generate_summary up to the provider call: a short
\* transcript raises ValueError before the try block
GenerateSummaryRequest(t) ==
    /\ pc = "idle"
    /\ impl' = "generate_summary"
    /\ transcription' = t
    /\ IF TranscriptionAccepted(t)
       THEN /\ gptCalls' = gptCalls + 1
            /\ pc' = "await_gpt"
            /\ UNCHANGED <<raised, error>>
       ELSE /\ raised' = TRUE
            /\ error' = TooShort
            /\ pc' = "done"
            /\ UNCHANGED gptCalls
    /\ UNCHANGED <<openai_client, audio, screen_context, prompt, reply, parsed,
                   result, whisperCalls, tempFiles, synthetic, summary, staged,
                   requests, files, ngrok>>

\* the provider replies: parse, or fall back
GenerateSummaryGptReturns(r) ==
    /\ pc = "await_gpt"
    /\ impl = "generate_summary"
    /\ reply' = r
    /\ summary' = GenerateSummaryOf(transcription, r)
    /\ pc' = "done"
    /\ UNCHANGED <<openai_client, impl, audio, transcription, screen_context,
                   prompt, parsed, result, raised, gptCalls, whisperCalls,
                   tempFiles, synthetic, error, staged, requests, files, ngrok>>

\* the provider call raises: fall back
GenerateSummaryGptRaises ==
    /\ pc = "await_gpt"
    /\ impl = "generate_summary"
    /\ reply' = [kind |-> "exception", text |-> <<>>]
    /\ summary' = GenerateSummaryOf(transcription, reply')
    /\ pc' = "done"
    /\ UNCHANGED <<openai_client, impl, audio, transcription, screen_context,
                   prompt, parsed, result, raised, gptCalls, whisperCalls,
                   tempFiles, synthetic, error, staged, requests, files, ngrok>>

\* POST /summarize up to the provider call (main.py 440-476): the two
\* HTTPExceptions of the checks are re-raised by the outer handler
SummarizeTextRequest(t) ==
    /\ pc = "idle"
    /\ impl' = "summarize_text"
    /\ transcription' = t
    /\ IF t = <<>>
       THEN /\ raised' = TRUE
            /\ error' = SummarizationFailed \o L("400: Transcription is required")
            /\ pc' = "done"
            /\ UNCHANGED gptCalls
       ELSE IF ~openai_client
       THEN /\ raised' = TRUE
            /\ error' = SummarizationFailed \o L("500: OpenAI client not configured")
            /\ pc' = "done"
            /\ UNCHANGED gptCalls
       ELSE /\ gptCalls' = gptCalls + 1
            /\ pc' = "await_gpt"
            /\ UNCHANGED <<raised, error>>
    /\ UNCHANGED <<openai_client, audio, screen_context, prompt, reply, parsed,
                   result, whisperCalls, tempFiles, synthetic, summary, staged,
                   requests, files, ngrok>>

\* the provider replies (main.py 478-496)
SummarizeTextGptReturns(r) ==
    /\ pc = "await_gpt"
    /\ impl = "summarize_text"
    /\ reply' = r
    /\ LET o == SummarizeTextOf(transcription, r)
       IN  IF o.ok
           THEN /\ summary' = o.d
                /\ UNCHANGED <<raised, error>>
           ELSE /\ raised' = TRUE
                /\ error' = o.err
                /\ UNCHANGED summary
    /\ pc' = "done"
    /\ UNCHANGED <<openai_client, impl, audio, transcription, screen_context,
                   prompt, parsed, result, gptCalls, whisperCalls, tempFiles,
                   synthetic, staged, requests, files, ngrok>>

\* the provider call raises (main.py 498-500)
SummarizeTextGptRaises ==
    /\ pc = "await_gpt"
    /\ impl = "summarize_text"
    /\ reply' = [kind |-> "exception", text |-> <<>>]
    /\ raised' = TRUE
    /\ error' = SummarizeTextOf(transcription, reply').err
    /\ pc' = "done"
    /\ UNCHANGED <<openai_client, impl, audio, transcription, screen_context,
                   prompt, parsed, result, gptCalls, whisperCalls, tempFiles,
                   synthetic, summary, staged, requests, files, ngrok>>

\* the response is sent; the next request starts from nothing
SummaryFinish ==
    /\ pc = "done"
    /\ pc' = "idle"
    /\ impl' = "none"
    /\ transcription' = <<>>
    /\ reply' = NoReply
    /\ summary' = NoSummary
    /\ raised' = FALSE
    /\ error' = <<>>
    /\ gptCalls' = 0
    /\ UNCHANGED <<openai_client, audio, screen_context, prompt, parsed, result,
                   whisperCalls, tempFiles, synthetic, staged, requests, files,
                   ngrok>>

SummaryNext ==
    \/ \E t \in SummaryTranscripts : GenerateSummaryRequest(t)
    \/ \E r \in SummaryReplies : GenerateSummaryGptReturns(r)
    \/ GenerateSummaryGptRaises
    \/ \E t \in SummaryTranscripts : SummarizeTextRequest(t)
    \/ \E r \in SummaryReplies : SummarizeTextGptReturns(r)
    \/ SummarizeTextGptRaises
    \/ SummaryFinish

SummarySpec == Init /\ [][SummaryNext]_vars

(***************************************************************************)
(* The transcribers as a state machine: one request at a time.             *)
(***************************************************************************)
\* TranscriptionService.transcribe_audio up to the provider call (lines
\* 34-68).  temp_file_path is assigned after the write: when the write
\* raises, the finally block finds it None and removes nothing.
TranscriptionServiceRequest(a, write_ok) ==
    /\ pc = "idle"
    /\ tempFiles < MaxTempFiles
    /\ impl' = "transcription_service"
    /\ audio' = a
    /\ LET e == TranscriptionServiceChecks(a)
       IN  IF e # <<>>
           THEN /\ raised' = TRUE
                /\ error' = e
                /\ pc' = "done"
                /\ UNCHANGED <<tempFiles, staged, whisperCalls>>
           ELSE IF ~write_ok
           THEN /\ raised' = TRUE
                /\ error' = WriteFailed
                /\ pc' = "done"
                /\ tempFiles' = tempFiles + 1
                /\ staged' = "exists"
                /\ UNCHANGED whisperCalls
           ELSE /\ tempFiles' = tempFiles + 1
                /\ staged' = "exists"
                /\ whisperCalls' = whisperCalls + 1
                /\ pc' = "await_whisper"
                /\ UNCHANGED <<raised, error>>
    /\ UNCHANGED <<openai_client, transcription, screen_context, prompt, reply,
                   parsed, result, gptCalls, synthetic, summary, requests, files,
                   ngrok>>

\* the transcript arrives (lines 70-86): the dict is returned through the
\* finally block, where a failed unlink is logged
TranscriptionServiceWhisperReturns(t, unlink_ok) ==
    /\ pc = "await_whisper"
    /\ impl = "transcription_service"
    /\ transcription' = t
    /\ result' = TranscriptionResult(t, audio.format)
    /\ tempFiles' = IF unlink_ok THEN tempFiles - 1 ELSE tempFiles
    /\ staged' = IF unlink_ok THEN "removed" ELSE "exists"
    /\ pc' = "done"
    /\ UNCHANGED <<openai_client, impl, audio, screen_context, prompt, reply,
                   parsed, raised, gptCalls, whisperCalls, synthetic, summary,
                   error, requests, files, ngrok>>

\* the speech provider raises: the exception leaves through the finally block
TranscriptionServiceWhisperRaises(unlink_ok) ==
    /\ pc = "await_whisper"
    /\ impl = "transcription_service"
    /\ raised' = TRUE
    /\ error' = ProviderError
    /\ tempFiles' = IF unlink_ok THEN tempFiles - 1 ELSE tempFiles
    /\ staged' = IF unlink_ok THEN "removed" ELSE "exists"
    /\ pc' = "done"
    /\ UNCHANGED <<openai_client, impl, audio, transcription, screen_context,
                   prompt, reply, parsed, result, gptCalls, whisperCalls,
                   synthetic, summary, requests, files, ngrok>>

\* POST /transcribe up to the provider call (main.py 170-207): an unknown
\* format is replaced by m4a; the file is created and written before the
\* inner try block
TranscribeEndpointRequest(a, write_ok) ==
    /\ pc = "idle"
    /\ tempFiles < MaxTempFiles
    /\ impl' = "transcribe_endpoint"
    /\ audio' = a
    /\ LET e == TranscribeEndpointChecks(a, openai_client)
       IN  IF e # <<>>
           THEN /\ raised' = TRUE
                /\ error' = e
                /\ pc' = "done"
                /\ UNCHANGED <<tempFiles, staged, whisperCalls>>
           ELSE IF ~write_ok
           THEN /\ raised' = TRUE
                /\ error' = L("500: Transcription service error: ") \o WriteFailed
                /\ pc' = "done"
                /\ tempFiles' = tempFiles + 1
                /\ staged' = "exists"
                /\ UNCHANGED whisperCalls
           ELSE /\ tempFiles' = tempFiles + 1
                /\ staged' = "exists"
                /\ whisperCalls' = whisperCalls + 1
                /\ pc' = "await_whisper"
                /\ UNCHANGED <<raised, error>>
    /\ UNCHANGED <<openai_client, transcription, screen_context, prompt, reply,
                   parsed, result, gptCalls, synthetic, summary, requests, files,
                   ngrok>>

\* the transcript arrives (main.py 208-228): os.unlink, then the dict.  When
\* os.unlink raises, the handler of the inner try block tries once more and
\* the request fails with status 500.
TranscribeEndpointWhisperReturns(t, unlink_ok, retry_ok) ==
    /\ pc = "await_whisper"
    /\ impl = "transcribe_endpoint"
    /\ transcription' = t
    /\ IF unlink_ok
       THEN /\ result' = TranscriptionResult(t, file_extension(audio))
            /\ tempFiles' = tempFiles - 1
            /\ staged' = "removed"
            /\ UNCHANGED <<raised, error>>
       ELSE /\ raised' = TRUE
            /\ error' = IF retry_ok
                        THEN L("500: Transcription failed: ") \o UnlinkFailed
                        ELSE L("500: Transcription service error: ") \o UnlinkFailed
            /\ tempFiles' = IF retry_ok THEN tempFiles - 1 ELSE tempFiles
            /\ staged' = IF retry_ok THEN "removed" ELSE "exists"
            /\ UNCHANGED result
    /\ pc' = "done"
    /\ UNCHANGED <<openai_client, impl, audio, screen_context, prompt, reply,
                   parsed, gptCalls, whisperCalls, synthetic, summary, requests,
                   files, ngrok>>

\* the speech provider raises (main.py 222-234)
TranscribeEndpointWhisperRaises(unlink_ok) ==
    /\ pc = "await_whisper"
    /\ impl = "transcribe_endpoint"
    /\ raised' = TRUE
    /\ error' = IF unlink_ok
                THEN L("500: Transcription failed: ") \o ProviderError
                ELSE L("500: Transcription service error: ") \o UnlinkFailed
    /\ tempFiles' = IF unlink_ok THEN tempFiles - 1 ELSE tempFiles
    /\ staged' = IF unlink_ok THEN "removed" ELSE "exists"
    /\ pc' = "done"
    /\ UNCHANGED <<openai_client, impl, audio, transcription, screen_context,
                   prompt, reply, parsed, result, gptCalls, whisperCalls,
                   synthetic, summary, requests, files, ngrok>>

\* the response is sent; a file that was not removed stays
TranscribeFinish ==
    /\ pc = "done"
    /\ pc' = "idle"
    /\ impl' = "none"
    /\ audio' = NoAudio
    /\ transcription' = <<>>
    /\ result' = EmptyDict
    /\ raised' = FALSE
    /\ error' = <<>>
    /\ whisperCalls' = 0
    /\ staged' = "none"
    /\ UNCHANGED <<openai_client, screen_context, prompt, reply, parsed,
                   gptCalls, tempFiles, synthetic, summary, requests, files,
                   ngrok>>

TranscribeNext ==
    \/ \E a \in TranscribeAudios, write_ok \in BOOLEAN :
           TranscriptionServiceRequest(a, write_ok)
    \/ \E t \in Transcripts, unlink_ok \in BOOLEAN :
           TranscriptionServiceWhisperReturns(t, unlink_ok)
    \/ \E unlink_ok \in BOOLEAN : TranscriptionServiceWhisperRaises(unlink_ok)
    \/ \E a \in TranscribeAudios, write_ok \in BOOLEAN :
           TranscribeEndpointRequest(a, write_ok)
    \/ \E t \in Transcripts, unlink_ok \in BOOLEAN, retry_ok \in BOOLEAN :
           TranscribeEndpointWhisperReturns(t, unlink_ok, retry_ok)
    \/ \E unlink_ok \in BOOLEAN : TranscribeEndpointWhisperRaises(unlink_ok)
    \/ TranscribeFinish

TranscribeSpec == Init /\ [][TranscribeNext]_vars

(***************************************************************************)
(* Concurrent requests to the three services: VoiceAgentService,           *)
(* SummarizationService and TranscriptionService.  A request keeps its     *)
(* arguments and locals in its own record; the services hold no attribute  *)
(* but the provider client.  What the requests share is the temporary      *)
(* directory, where NamedTemporaryFile creates a file under a name that no *)
(* existing file has.  A step is one request going up to its next call of  *)
(* a provider or of the file system; steps of different requests           *)
(* interleave in any order.                                                *)
(***************************************************************************)
Names == 1..MaxRequests

FileNames == {f.name : f \in files}

\* a mutant of NamedTemporaryFile: one fixed name, as a path built from the
\* process id and a caller-given file name would be
NamedTemporaryFileFixedName == {1}

\* tempfile.NamedTemporaryFile (transcription.py line 57): the names it may
\* give, none of them in use
NamedTemporaryFile == Names \ FileNames

\* the speech provider's transcript of the bytes it is sent: the same bytes
\* give the same text
Whisper(content) == L("<speech of ") \o L(content) \o L(">")

NoOutcome == Raise(L("<pending>"))

ConcInputs ==
    {[kind |-> "command", transcript |-> Repeat("a", MaxTranscript), ctx |-> c,
      audio |-> ""] :
        c \in {Ctx(m, <<LocationField, DatetimeField>>) : m \in {Str(S_edit), Str(S_preview)}}}
    \cup {[kind |-> "summary", transcript |-> Repeat("a", n), ctx |-> NoContext,
           audio |-> ""] : n \in {MinSummaryChars - 1, MinSummaryChars}}
    \cup {[kind |-> "transcription", transcript |-> <<>>, ctx |-> NoContext,
           audio |-> a] : a \in {"A", "B"}}

\* a request that has not started: its arguments and its empty locals
NewRequest(in) ==
    [kind |-> in.kind, transcript |-> in.transcript, ctx |-> in.ctx,
     audio |-> in.audio, pc |-> "start", temp_file_path |-> 0, sent |-> "",
     reply |-> NoReply, result |-> NoOutcome]

ConcReplies ==
    {[kind |-> "text", text |-> Encode(BaseProposal)],
     [kind |-> "text", text |-> EncodeSummary(FullSummary)],
     [kind |-> "text", text |-> <<Word>>],
     [kind |-> "exception", text |-> <<>>]}

\* VoiceAgentService.process_voice_command from its arguments and the
\* provider's outcome to what it returns
RunCommand(transcript, ctx, outcome) ==
    LET p == _build_command_prompt(transcript, ctx)
    IN  IF ~p.ok THEN Return(HandleException(p).d)
        ELSE IF outcome.kind = "exception"
        THEN Return(HandleException(Raise(ProviderError)).d)
        ELSE Return(HandleException(ResolveReply(outcome.text, ctx)).d)

\* SummarizationService.generate_summary from its argument and the
\* provider's outcome to what it returns or raises
RunSummary(transcript, outcome) ==
    IF ~TranscriptionAccepted(transcript) THEN Raise(TooShort)
    ELSE Return(GenerateSummaryOf(transcript, outcome))

ConcInit ==
    /\ openai_client = TRUE
    /\ tempFiles = 0
    /\ files = {}
    /\ requests \in [1..MaxRequests -> {NewRequest(in) : in \in ConcInputs}]
    /\ Idle

\* process_voice_command or generate_summary up to the provider call
ConcCall(r) ==
    /\ requests[r].pc = "start"
    /\ requests[r].kind \in {"command", "summary"}
    /\ LET q == requests[r]
           early == IF q.kind = "command"
                    THEN ~_build_command_prompt(q.transcript, q.ctx).ok
                    ELSE ~TranscriptionAccepted(q.transcript)
           now == IF q.kind = "command"
                  THEN RunCommand(q.transcript, q.ctx, NoReply)
                  ELSE RunSummary(q.transcript, NoReply)
       IN  requests' = [requests EXCEPT ![r] =
               IF early THEN [q EXCEPT !.pc = "done", !.result = now]
               ELSE [q EXCEPT !.pc = "await_gpt"]]
    /\ UNCHANGED <<openai_client, pc, impl, audio, transcription, screen_context,
                   prompt, reply, parsed, result, raised, gptCalls, whisperCalls,
                   tempFiles, synthetic, summary, error, staged, files, ngrok>>

\* the text-inference provider answers request r
ConcReply(r, outcome) ==
    /\ requests[r].pc = "await_gpt"
    /\ LET q == requests[r]
       IN  requests' = [requests EXCEPT ![r] =
               [q EXCEPT !.pc = "done",
                         !.reply = outcome,
                         !.result = IF q.kind = "command"
                                    THEN RunCommand(q.transcript, q.ctx, outcome)
                                    ELSE RunSummary(q.transcript, outcome)]]
    /\ UNCHANGED <<openai_client, pc, impl, audio, transcription, screen_context,
                   prompt, reply, parsed, result, raised, gptCalls, whisperCalls,
                   tempFiles, synthetic, summary, error, staged, files, ngrok>>

\* transcribe_audio lines 57-59: the file is created under name n and the
\* audio is written to it
ConcStage(r, n) ==
    /\ requests[r].pc = "start"
    /\ requests[r].kind = "transcription"
    /\ n \in NamedTemporaryFile
    /\ files' = {f \in files : f.name # n}
                \cup {[name |-> n, content |-> requests[r].audio]}
    /\ requests' = [requests EXCEPT ![r].pc = "staged", ![r].temp_file_path = n]
    /\ UNCHANGED <<openai_client, pc, impl, audio, transcription, screen_context,
                   prompt, reply, parsed, result, raised, gptCalls, whisperCalls,
                   tempFiles, synthetic, summary, error, staged, ngrok>>

\* transcribe_audio lines 63-68: the file is opened by its path and what it
\* holds is sent to the speech provider; a missing file raises
ConcSend(r) ==
    /\ requests[r].pc = "staged"
    /\ LET q == requests[r]
       IN  IF q.temp_file_path \in FileNames
           THEN requests' = [requests EXCEPT ![r] =
                    [q EXCEPT !.pc = "await_whisper",
                              !.sent = (CHOOSE f \in files :
                                            f.name = q.temp_file_path).content]]
           ELSE requests' = [requests EXCEPT ![r] =
                    [q EXCEPT !.pc = "done",
                              !.result = Raise(L("FileNotFoundError"))]]
    /\ UNCHANGED <<openai_client, pc, impl, audio, transcription, screen_context,
                   prompt, reply, parsed, result, raised, gptCalls, whisperCalls,
                   tempFiles, synthetic, summary, error, staged, files, ngrok>>

\* transcribe_audio lines 70-86: the speech provider answers or raises, and
\* the finally block unlinks the file of this request, which may fail
ConcTranscribed(r, answers, unlink_ok) ==
    /\ requests[r].pc = "await_whisper"
    /\ LET q == requests[r]
       IN  /\ requests' = [requests EXCEPT ![r] =
                 [q EXCEPT
                    !.pc = "done",
                    !.reply = IF answers
                              THEN [kind |-> "text", text |-> Whisper(q.sent)]
                              ELSE [kind |-> "exception", text |-> <<>>],
                    !.result = IF answers
                               THEN Return(TranscriptionResult(Whisper(q.sent), "m4a"))
                               ELSE Raise(ProviderError)]]
           /\ files' = IF unlink_ok
                       THEN {f \in files : f.name # q.temp_file_path}
                       ELSE files
    /\ UNCHANGED <<openai_client, pc, impl, audio, transcription, screen_context,
                   prompt, reply, parsed, result, raised, gptCalls, whisperCalls,
                   tempFiles, synthetic, summary, error, staged, ngrok>>

ConcNext ==
    \E r \in 1..MaxRequests :
        \/ ConcCall(r)
        \/ \E outcome \in ConcReplies : ConcReply(r, outcome)
        \/ \E n \in Names : ConcStage(r, n)
        \/ ConcSend(r)
        \/ \E answers \in BOOLEAN, unlink_ok \in BOOLEAN :
               ConcTranscribed(r, answers, unlink_ok)

ConcSpec == ConcInit /\ [][ConcNext]_vars

(***************************************************************************)
(* VoiceAgentService.process_voice_command on the field descriptors a      *)
(* client may send: editable or read-only, complete or with a key missing. *)
(***************************************************************************)
\* a descriptor of a field the screen shows read-only
ReadOnlyField == [LocationField EXCEPT !.isEditable = Bool(FALSE)]

\* descriptors the client sent without one of the keys _format_fields reads
IncompleteFields ==
    {[LocationField EXCEPT ![k] = Absent] :
        k \in {"label", "name", "currentValue", "isEditable"}}

DescriptorContexts ==
    {Ctx(m, <<f, DatetimeField>>) :
        m \in {Str(S_edit), Str(S_preview)}, f \in {LocationField, ReadOnlyField}}
    \cup {Ctx(Str(S_edit), <<g>>) : g \in IncompleteFields}
    \cup {Ctx(Str(S_edit), <<DatetimeField, g>>) : g \in IncompleteFields}

DescriptorReplyTexts ==
    {Encode(Obj(update_field, Str(S_location), Str(S_office), Num(92), Absent)),
     Encode(Obj(update_field, Str(S_location), Absent, Num(92), Absent)),
     Encode(Obj(update_field, Str(S_datetime), Absent, Num(92), Absent)),
     Encode(Obj(execute_action, Str(S_Make_PDF), Absent, Num(92), Absent)),
     Encode(Obj(toggle_mode, Absent, Absent, Num(92), Absent)),
     <<Word>>}

DescriptorNext ==
    \/ \E t \in Transcripts, ctx \in DescriptorContexts : ServiceRequest(t, ctx)
    \/ \E text \in DescriptorReplyTexts : ServiceGptReturns(text)
    \/ ServiceGptRaises
    \/ Finish

DescriptorSpec == Init /\ [][DescriptorNext]_vars

(***************************************************************************)
(* The two prompt builders on transcripts that hold a double quote or a    *)
(* line break.                                                             *)
(***************************************************************************)
PromptTranscripts == SeqsUpTo({"a", "\"", "\n"}, MaxTranscript)

PromptContexts ==
    {Ctx(Str(S_edit), <<LocationField, DatetimeField>>), Ctx(Str(S_edit), <<>>)}

\* VoiceAgentService._build_command_prompt on a transcript and a context
BuildCommandPrompt(t, ctx) ==
    /\ pc = "idle"
    /\ impl' = "command_prompt"
    /\ transcription' = t
    /\ screen_context' = ctx
    /\ prompt' = _build_command_prompt(t, ctx).d
    /\ pc' = "prompt_built"
    /\ UNCHANGED <<openai_client, audio, reply, parsed, result, raised, gptCalls,
                   whisperCalls, tempFiles, synthetic, summary, error, staged,
                   requests, files, ngrok>>

\* SummarizationService._get_user_prompt on a transcript
BuildSummaryPrompt(t) ==
    /\ pc = "idle"
    /\ impl' = "summary_prompt"
    /\ transcription' = t
    /\ prompt' = _get_user_prompt(t)
    /\ pc' = "prompt_built"
    /\ UNCHANGED <<openai_client, audio, screen_context, reply, parsed, result,
                   raised, gptCalls, whisperCalls, tempFiles, synthetic, summary,
                   error, staged, requests, files, ngrok>>

\* the prompt is handed over and the next one can be built
PromptFinish ==
    /\ pc = "prompt_built"
    /\ pc' = "idle"
    /\ impl' = "none"
    /\ transcription' = <<>>
    /\ screen_context' = NoContext
    /\ prompt' = <<>>
    /\ UNCHANGED <<openai_client, audio, reply, parsed, result, raised, gptCalls,
                   whisperCalls, tempFiles, synthetic, summary, error, staged,
                   requests, files, ngrok>>

PromptNext ==
    \/ \E t \in PromptTranscripts, ctx \in PromptContexts : BuildCommandPrompt(t, ctx)
    \/ \E t \in PromptTranscripts : BuildSummaryPrompt(t)
    \/ PromptFinish

PromptSpec == Init /\ [][PromptNext]_vars

(***************************************************************************)
(* utils/file_handlers.py: callers of one process that save a temporary    *)
(* file and clean it up.  The directory entry of a file names its inode;   *)
(* a caller that has the file open writes to the inode it opened.          *)
(***************************************************************************)
FileNamesGiven == {"x.m4a", "y.m4a"}
FileData == {"A", "B"}

\* save_temp_file line 14: the path is made of the directory, the process
\* id, which the callers share, and the file name
temp_path(filename) == L("<tmp>/voice_report_<pid>_") \o L(filename)

\* an inode that no directory entry names and no caller has open
FreshInode ==
    CHOOSE n \in 1..(MaxCallers + Cardinality(FileNamesGiven)) :
        /\ \A f \in files : f.inode # n
        /\ \A c \in 1..MaxCallers : requests[c].pc = "open" => requests[c].inode # n

NewCaller(filename, data) ==
    [filename |-> filename, data |-> data, pc |-> "start", temp_path |-> <<>>,
     inode |-> 0]

FileInit ==
    /\ openai_client = TRUE
    /\ tempFiles = 0
    /\ files = {}
    /\ requests \in [1..MaxCallers ->
                        {NewCaller(n, d) : n \in FileNamesGiven, d \in FileData}]
    /\ Idle

\* save_temp_file line 16: open(temp_path, "wb") creates the file, or
\* empties the one that exists under the path
SaveOpen(c) ==
    /\ requests[c].pc = "start"
    /\ LET path == temp_path(requests[c].filename)
           old == {f \in files : f.name = path}
           ino == IF old = {} THEN FreshInode ELSE (CHOOSE f \in old : TRUE).inode
       IN  /\ files' = (files \ old)
                       \cup {[name |-> path, inode |-> ino, content |-> <<>>]}
           /\ requests' = [requests EXCEPT ![c].pc = "open",
                                           ![c].temp_path = path,
                                           ![c].inode = ino]
    /\ UNCHANGED <<openai_client, pc, impl, audio, transcription, screen_context,
                   prompt, reply, parsed, result, raised, gptCalls, whisperCalls,
                   tempFiles, synthetic, summary, error, staged, ngrok>>

\* save_temp_file lines 17-20: the data is written to the open file, the
\* file is closed and the path returned; a file removed in the meantime
\* keeps no directory entry
SaveWrite(c) ==
    /\ requests[c].pc = "open"
    /\ files' = {IF f.inode = requests[c].inode
                 THEN [f EXCEPT !.content = L(requests[c].data)]
                 ELSE f : f \in files}
    /\ requests' = [requests EXCEPT ![c].pc = "saved"]
    /\ UNCHANGED <<openai_client, pc, impl, audio, transcription, screen_context,
                   prompt, reply, parsed, result, raised, gptCalls, whisperCalls,
                   tempFiles, synthetic, summary, error, staged, ngrok>>

\* cleanup_temp_file: the file under the path is removed if there is one
Cleanup(c) ==
    /\ requests[c].pc = "saved"
    /\ files' = {f \in files : f.name # requests[c].temp_path}
    /\ requests' = [requests EXCEPT ![c].pc = "cleaned"]
    /\ UNCHANGED <<openai_client, pc, impl, audio, transcription, screen_context,
                   prompt, reply, parsed, result, raised, gptCalls, whisperCalls,
                   tempFiles, synthetic, summary, error, staged, ngrok>>

\* a caller that cleaned up saves again, under any name and with any data
SaveAgain(c, filename, data) ==
    /\ requests[c].pc = "cleaned"
    /\ requests' = [requests EXCEPT ![c] = NewCaller(filename, data)]
    /\ UNCHANGED <<openai_client, pc, impl, audio, transcription, screen_context,
                   prompt, reply, parsed, result, raised, gptCalls, whisperCalls,
                   tempFiles, synthetic, summary, error, staged, files, ngrok>>

FileNext ==
    \E c \in 1..MaxCallers :
        \/ SaveOpen(c)
        \/ SaveWrite(c)
        \/ Cleanup(c)
        \/ \E n \in FileNamesGiven, d \in FileData : SaveAgain(c, n, d)

FileSpec == FileInit /\ [][FileNext]_vars

(***************************************************************************)
(* ngrok_manager.py: NgrokManager.wait_for_ngrok polls the ngrok API.      *)
(* An answer of the API is a list of tunnels; a request that fails is the  *)
(* answer "failed".                                                        *)
(***************************************************************************)
Tunnels ==
    {[proto |-> "http", public_url |-> "http://a.ngrok.io"],
     [proto |-> "https", public_url |-> "https://a.ngrok.io"],
     [proto |-> "https", public_url |-> "https://b.ngrok.io"]}

RequestFailed == [failed |-> TRUE, tunnels |-> <<>>]

ApiResponses ==
    {[failed |-> FALSE, tunnels |-> ts] : ts \in SeqsUpTo(Tunnels, MaxTunnels)}
    \cup {RequestFailed}

\* a mutant of get_ngrok_url: the first tunnel is taken, whatever its proto
get_ngrok_url_any_proto(response) ==
    IF response.failed THEN Null
    ELSE IF response.tunnels = <<>> THEN Null
    ELSE Str(L(response.tunnels[1].public_url))

\* NgrokManager.get_ngrok_url on the answer to its GET: the public_url of
\* the first https tunnel, None when there is none or the request failed
get_ngrok_url(response) ==
    IF response.failed THEN Null
    ELSE LET https == {i \in 1..Len(response.tunnels) :
                          response.tunnels[i].proto = "https"}
         IN  IF https = {} THEN Null
             ELSE Str(L(response.tunnels[CHOOSE i \in https :
                                             \A j \in https : i <= j].public_url))

\* wait_for_ngrok is called: range(1, max_attempts + 1) is empty for
\* max_attempts = 0 and None is returned at once
WaitForNgrok(max_attempts) ==
    /\ ngrok.pc = "idle"
    /\ ngrok' = [pc |-> IF max_attempts >= 1 THEN "poll" ELSE "returned",
                 max_attempts |-> max_attempts,
                 attempt |-> IF max_attempts >= 1 THEN 1 ELSE 0,
                 responses |-> <<>>,
                 url |-> Null]
    /\ UNCHANGED <<openai_client, pc, impl, audio, transcription, screen_context,
                   prompt, reply, parsed, result, raised, gptCalls, whisperCalls,
                   tempFiles, synthetic, summary, error, staged, requests, files>>

\* lines 49-52: one poll; a URL is returned at once
NgrokPoll(response) ==
    /\ ngrok.pc = "poll"
    /\ LET url == get_ngrok_url(response)
       IN  ngrok' = [ngrok EXCEPT
                        !.responses = Append(@, response),
                        !.url = url,
                        !.pc = IF Truthy(url) THEN "returned" ELSE "sleep"]
    /\ UNCHANGED <<openai_client, pc, impl, audio, transcription, screen_context,
                   prompt, reply, parsed, result, raised, gptCalls, whisperCalls,
                   tempFiles, synthetic, summary, error, staged, requests, files>>

\* line 54 and the loop header: after the sleep the next attempt starts, or
\* the loop ends and None is returned (lines 56-57)
NgrokSleep ==
    /\ ngrok.pc = "sleep"
    /\ ngrok' = IF ngrok.attempt < ngrok.max_attempts
                THEN [ngrok EXCEPT !.attempt = @ + 1, !.pc = "poll"]
                ELSE [ngrok EXCEPT !.pc = "returned", !.url = Null]
    /\ UNCHANGED <<openai_client, pc, impl, audio, transcription, screen_context,
                   prompt, reply, parsed, result, raised, gptCalls, whisperCalls,
                   tempFiles, synthetic, summary, error, staged, requests, files>>

\* the caller has the result; wait_for_ngrok can be called again
NgrokReturned ==
    /\ ngrok.pc = "returned"
    /\ ngrok' = NoNgrok
    /\ UNCHANGED <<openai_client, pc, impl, audio, transcription, screen_context,
                   prompt, reply, parsed, result, raised, gptCalls, whisperCalls,
                   tempFiles, synthetic, summary, error, staged, requests, files>>

NgrokNext ==
    \/ \E max_attempts \in 0..MaxAttempts : WaitForNgrok(max_attempts)
    \/ \E response \in ApiResponses : NgrokPoll(response)
    \/ NgrokSleep
    \/ NgrokReturned

\* a GET of the API ends, by an answer or by its 5 second timeout, and a
\* sleep ends: a poll and a sleep that can happen do happen
NgrokSpec ==
    /\ Init
    /\ [][NgrokNext]_vars
    /\ WF_vars(\E response \in ApiResponses : NgrokPoll(response))
    /\ WF_vars(NgrokSleep)

(***************************************************************************)
(* Vocabulary of the properties.                                           *)
(***************************************************************************)
\* the confidence below which the provider is told to clarify, in hundredths
ConfidenceThreshold == 70

\* the action vocabulary of the CommandDecision data model
SpecVocabulary ==
    {update_field, toggle_mode, execute_action, clarify, Str(L("acknowledge")),
     Str(L("explain_capabilities")), Str(L("provide_suggestion"))}

\* the action vocabulary written in voice_agent.py
CodeVocabulary ==
    {Str(L("update_field")), Str(L("toggle_mode")), Str(L("navigate")),
     Str(L("execute_action")), Str(L("clarify"))}

Done == pc = "done"

\* the provider replied with a text that the resolver's parse step accepted
Proposed == Done /\ reply.kind = "text" /\ parsed.ok

\* the provider call raised, or the reply was rejected by the parse step
Failed == Done /\ (reply.kind = "exception" \/ (reply.kind = "text" /\ ~parsed.ok))

\* the resolver holds a transcript: the service is called with one, the
\* endpoint has one once the speech provider returned (it then always goes
\* on to the inference call, whose outcome is in reply)
HasTranscript == impl = "service" \/ (impl = "endpoint" /\ reply.kind # "none")

\* the request passes the precondition gate
Meaningful == screen_context.present /\ Len(transcription) >= 3

\* the object has the four required keys
Complete(d) ==
    /\ d.action # Absent
    /\ d.confidence # Absent
    /\ d.confirmation # Absent
    /\ d.ttsText # Absent

LowConfidence(d) == d.confidence.t = "num" /\ d.confidence.n < ConfidenceThreshold

Confident(d) == d.confidence.t = "num" /\ d.confidence.n >= ConfidenceThreshold

Fields == {screen_context.visibleFields[i] : i \in 1..Len(screen_context.visibleFields)}

Synonyms(f) == {f.synonyms[i] : i \in 1..Len(f.synonyms)}

IsFieldName(target) == \E f \in Fields : f.name = target

\* target matches f by exact name, case-insensitive name or synonym
Matches(target, f) ==
    /\ target.t = "str"
    /\ f.name.t = "str"
    /\ \/ f.name = target
       \/ Lower(f.name.s) = Lower(target.s)
       \/ target.s \in Synonyms(f)

\* the decision the error paths return
ErrorDecision(d) ==
    /\ d.action = clarify
    /\ d.confidence = Num(0)
    /\ Truthy(d.clarification)
    /\ d.confirmation.t = "str"
    /\ d.ttsText.t = "str"

\* a complete proposal in the vocabulary of both the data model and the
\* code, made on a request that passes the precondition gate
WellFormedProposal ==
    /\ Proposed
    /\ Meaningful
    /\ Complete(parsed.d)
    /\ parsed.d.action \in SpecVocabulary \cap CodeVocabulary

(***************************************************************************)
(* Properties of the resolvers (specification Spec).                       *)
(***************************************************************************)
\* C1: every parsed proposal with confidence < 0.7 is returned as clarify,
\* whatever action it proposed, with the provider's clarification if it gave
\* one and a generic question otherwise.  Stated for complete proposals on
\* requests that pass the precondition gate.
ConfidenceGate ==
    (WellFormedProposal /\ LowConfidence(parsed.d)) =>
        /\ result.action = clarify
        /\ Truthy(result.clarification)
        /\ Truthy(parsed.d.clarification) =>
               result.clarification = parsed.d.clarification

\* C2: with no screen context, or a transcript shorter than 3 characters,
\* the resolver returns clarify and never calls the inference provider.
PreconditionGate ==
    (Done /\ HasTranscript
          /\ (~screen_context.present \/ Len(transcription) < 3)) =>
        /\ result.action = clarify
        /\ gptCalls = 0

\* C3: the resolver never raises; it returns a decision with the required
\* keys, and after a failed call or a failed parse the decision is clarify
\* with confidence 0.0, a non-empty clarification, a confirmation and a
\* ttsText.
NeverRaises ==
    Done =>
        /\ ~raised
        /\ Complete(result)
        /\ Failed => ErrorDecision(result)

\* C3 witness: the service rejected a reply that has braces (invalid JSON,
\* a missing key or an unknown action) and returned the error decision.
NeverRaisesWitness ==
    /\ Failed
    /\ impl = "service"
    /\ reply.kind = "text"
    /\ Find(reply.text, "{") # -1
    /\ ErrorDecision(result)

\* C4: an update_field proposal whose target matches no field by exact name,
\* case-insensitive name or synonym is returned as clarify; every returned
\* update_field names a field of the context.  Stated for confident
\* proposals in edit mode, where no other gate applies.
FieldResolution ==
    (/\ WellFormedProposal
     /\ Confident(parsed.d)
     /\ screen_context.mode = Str(S_edit)
     /\ parsed.d.action = update_field) =>
        /\ (~\E f \in Fields : Matches(Get(parsed.d, "target"), f)) =>
               result.action = clarify
        /\ result.action = update_field => IsFieldName(result.target)

\* C5: in edit mode, a confident update_field proposal whose target is no
\* field name but a synonym of field F is returned as update_field with
\* target F.name, the value unchanged and a confirmation containing F.label.
SynonymResolution ==
    \A f \in Fields :
        (/\ WellFormedProposal
         /\ Confident(parsed.d)
         /\ screen_context.mode = Str(S_edit)
         /\ parsed.d.action = update_field
         /\ parsed.d.target.t = "str"
         /\ ~IsFieldName(parsed.d.target)
         /\ parsed.d.target.s \in Synonyms(f)) =>
            /\ result.action = update_field
            /\ result.target = f.name
            /\ Get(result, "value") = Get(parsed.d, "value")
            /\ result.confirmation.t = "str"
            /\ Contains(f.label.s, result.confirmation.s)

\* C6: an update_field proposal against a context in preview mode is returned
\* as clarify, asking whether to switch to edit mode; no update_field is
\* returned in preview mode.  Stated for confident proposals that name a
\* field of the context, where no other gate applies.
ModeAwareness ==
    (/\ WellFormedProposal
     /\ Confident(parsed.d)
     /\ screen_context.mode = Str(S_preview)
     /\ parsed.d.action = update_field
     /\ IsFieldName(parsed.d.target)) =>
        /\ result.action = clarify
        /\ result.clarification =
               Str(L("You're in preview mode. Should I switch to edit mode first?"))

\* C8: a reply whose object lacks one of action, confidence, confirmation,
\* ttsText is rejected and ends as the error clarify decision (confidence
\* 0.0); no default stands in for the missing key.
StructuralValidation ==
    (/\ Done
     /\ Meaningful
     /\ reply.kind = "text"
     /\ json_loads(reply.text).ok
     /\ json_loads(reply.text).kind = "dict"
     /\ ~Complete(json_loads(reply.text).d)) =>
        /\ ~parsed.ok
        /\ ErrorDecision(result)

\* C10: a complete reply whose confidence is not numeric is not rejected;
\* its confidence becomes 0.5 and the resolver returns clarify.
ValueRepair ==
    (/\ Done
     /\ Meaningful
     /\ reply.kind = "text"
     /\ json_loads(reply.text).ok
     /\ json_loads(reply.text).kind = "dict"
     /\ Complete(json_loads(reply.text).d)
     /\ json_loads(reply.text).d.action \in SpecVocabulary \cap CodeVocabulary
     /\ json_loads(reply.text).d.confidence = Str(S_high)) =>
        /\ parsed.ok
        /\ result.confidence = Num(50)
        /\ result.action = clarify

\* C11: every returned decision whose action is clarify carries a non-empty
\* clarification, also when the provider itself proposed clarify and left
\* the clarification key out.  Stated for requests that pass the
\* precondition gate.
ClarifyHasClarification ==
    (Done /\ Meaningful /\ result.action = clarify) =>
        Truthy(Get(result, "clarification"))

\* C17: on POST /voice-command an input failure (client not configured,
\* audio that is not base64, audio over 25 MB) and a failure of the speech
\* provider end the request with a returned clarify decision of confidence
\* 0.0: nothing is raised and the text-inference provider is not called.
VoiceCommandFailureIsClarify ==
    (/\ Done
     /\ impl = "endpoint"
     /\ \/ ~openai_client
        \/ ~audio.b64ok
        \/ audio.sizeMB > 25
        \/ (whisperCalls = 1 /\ error = ProviderError)) =>
        /\ ~raised
        /\ result.action = clarify
        /\ result.confidence = Num(0)
        /\ Complete(result)
        /\ gptCalls = 0
        /\ reply = NoReply

\* C17 witness: with a configured client, audio over the limit was answered
\* by the clarify decision.
VoiceCommandFailureIsClarifyWitness ==
    /\ Done
    /\ impl = "endpoint"
    /\ openai_client
    /\ audio.b64ok
    /\ audio.sizeMB > 25
    /\ result.action = clarify
    /\ result.confidence = Num(0)
    /\ gptCalls = 0

\* the text v mentions the label
Mentions(label, v) == label.t = "str" /\ v.t = "str" /\ Contains(label.s, v.s)

\* C20 as claimed: every update_field decision the service returns whose
\* target is the name of a field F has confirmation and ttsText rewritten
\* to mention F.label, whether or not it carries a value.  Stated for
\* confident proposals on requests that pass the precondition gate.
LabelEnrichmentAnyValue ==
    \A f \in Fields :
        (/\ WellFormedProposal
         /\ Confident(parsed.d)
         /\ impl = "service"
         /\ result.action = update_field
         /\ result.target = f.name) =>
            /\ Mentions(f.label, result.confirmation)
            /\ Mentions(f.label, result.ttsText)

\* C20 as amended: the rewrite is made when the returned decision has a
\* non-empty value (the proposal's, or the timestamp put in for datetime).
LabelEnrichment ==
    \A f \in Fields :
        (/\ Done
         /\ impl = "service"
         /\ result.action = update_field
         /\ result.target = f.name
         /\ Truthy(Get(result, "value"))) =>
            /\ Mentions(f.label, result.confirmation)
            /\ Mentions(f.label, result.ttsText)

\* C20 witness: an update of location to Office came back with the label
\* Location in both texts.
LabelEnrichmentWitness ==
    /\ Done
    /\ impl = "service"
    /\ result.action = update_field
    /\ result.target = Str(S_location)
    /\ result.value = Str(S_office)
    /\ result.confirmation =
           Str(L("Updated ") \o S_Location \o L(" to: ") \o S_office)
    /\ Mentions(Str(S_Location), result.ttsText)

\* C21: for an update_field proposal on target datetime a missing or empty
\* value is returned as the current timestamp and a supplied value is
\* returned as it is; an update_field proposal on any other target is
\* returned with the value it came with, so never with a timestamp.
TimestampSubstitution ==
    (Proposed /\ impl = "service" /\ parsed.d.action = update_field) =>
        /\ (parsed.d.target = Str(S_datetime) /\ ~Truthy(parsed.d.value)) =>
               result.value = Str(Now)
        /\ (parsed.d.target = Str(S_datetime) /\ Truthy(parsed.d.value)) =>
               result.value = parsed.d.value
        /\ parsed.d.target # Str(S_datetime) =>
               result.value = parsed.d.value

\* C21 witness: in edit mode a proposal for datetime without a value was
\* returned as update_field with the timestamp.
TimestampSubstitutionWitness ==
    /\ Proposed
    /\ impl = "service"
    /\ parsed.d.action = update_field
    /\ parsed.d.target = Str(S_datetime)
    /\ parsed.d.value = Absent
    /\ screen_context.mode = Str(S_edit)
    /\ result.action = update_field
    /\ result.value = Str(Now)

\* the lower-cased target of an execute_action proposal names a PDF or a
\* generation; it names a mode switch
NamesPdf(target) == Contains(S_pdf, Lower(target.s)) \/ Contains(S_generate, Lower(target.s))

NamesModeSwitch(target) ==
    /\ Contains(S_mode, Lower(target.s))
    /\ Contains(S_edit, Lower(target.s)) \/ Contains(S_preview, Lower(target.s))

\* C22: an execute_action proposal whose target contains "pdf" or
\* "generate" in any letter case is returned as execute_action on target
\* generate_pdf, also when the target names a mode switch as well; a target
\* that matches no rule is returned with the whole decision unchanged.
ActionNormalization ==
    (/\ Proposed
     /\ impl = "service"
     /\ parsed.d.action = execute_action
     /\ parsed.d.target.t = "str") =>
        /\ NamesPdf(parsed.d.target) =>
               /\ result.action = execute_action
               /\ result.target = Str(S_generate_pdf)
        /\ (~NamesPdf(parsed.d.target) /\ ~NamesModeSwitch(parsed.d.target)) =>
               result = parsed.d

\* C22 witness: "generate edit mode", which matches the pdf/generate rule and
\* the edit-mode rule, was returned as execute_action on generate_pdf.
ActionNormalizationWitness ==
    /\ Proposed
    /\ impl = "service"
    /\ parsed.d.action = execute_action
    /\ parsed.d.target = Str(S_generate_edit_mode)
    /\ NamesModeSwitch(parsed.d.target)
    /\ result.action = execute_action
    /\ result.target = Str(S_generate_pdf)

\* the decision is the one _create_error_response builds for some message
IsErrorResponse(d) ==
    /\ ErrorDecision(d)
    /\ d.confirmation.t = "str"
    /\ Len(d.confirmation.s) >= 1
    /\ d.confirmation.s[1] = "Error: "
    /\ d = _create_error_response(Tail(d.confirmation.s))

\* C24: every decision VoiceAgentService.process_voice_command returns has
\* one of the five actions of valid_actions.  When post-processing returns,
\* the action is the proposed one, or clarify for a proposed update_field,
\* or toggle_mode for a proposed execute_action; update_field is returned
\* only for a proposed update_field.
ActionClosure ==
    (Done /\ impl = "service") =>
        /\ ~raised
        /\ result.action \in {update_field, toggle_mode, navigate, execute_action, clarify}
        /\ (Proposed /\ ~IsErrorResponse(result)) =>
               \/ result.action = parsed.d.action
               \/ parsed.d.action = update_field /\ result.action = clarify
               \/ parsed.d.action = execute_action /\ result.action = toggle_mode
        /\ result.action = update_field =>
               Proposed /\ parsed.d.action = update_field

\* C24 witness: both rewrites have a reachable case; this one is
\* execute_action on "edit mode" returned as toggle_mode.
ActionClosureWitness ==
    /\ Proposed
    /\ impl = "service"
    /\ parsed.d.action = execute_action
    /\ parsed.d.target = Str(S_edit_mode)
    /\ result.action = toggle_mode

\* C25: when the preview-mode override turns a proposed update_field into
\* clarify, every key other than action, clarification and ttsText is
\* returned as proposed, except that a missing or empty value on target
\* datetime is returned as the current timestamp.
PreviewOverrideFrame ==
    (/\ Proposed
     /\ impl = "service"
     /\ parsed.d.action = update_field
     /\ screen_context.mode = Str(S_preview)) =>
        /\ result.action = clarify
        /\ \A k \in Keys \ {"action", "clarification", "ttsText", "value"} :
               result[k] = parsed.d[k]
        /\ result.value =
               IF parsed.d.target = Str(S_datetime) /\ ~Truthy(parsed.d.value)
               THEN Str(Now)
               ELSE parsed.d.value

\* C25 witness: in preview mode a proposal to set location to a value came
\* back as clarify with target, value and confirmation as proposed.
PreviewOverrideFrameWitness ==
    /\ Proposed
    /\ impl = "service"
    /\ parsed.d.action = update_field
    /\ parsed.d.target = Str(S_location)
    /\ parsed.d.value = Str(S_office)
    /\ screen_context.mode = Str(S_preview)
    /\ result.action = clarify
    /\ result.value = Str(S_office)
    /\ result.confirmation = parsed.d.confirmation

\* C26: an execute_action proposal with no target key is returned with its
\* action and ttsText as proposed; one whose target is null is answered by
\* the error response, a clarify decision of confidence 0.0, and nothing is
\* raised.
ExecuteWithoutTarget ==
    (/\ Proposed
     /\ impl = "service"
     /\ parsed.d.action = execute_action) =>
        /\ parsed.d.target = Absent =>
               /\ result.action = execute_action
               /\ result.ttsText = parsed.d.ttsText
               /\ result = parsed.d
        /\ parsed.d.target = Null =>
               /\ ~raised
               /\ result = _create_error_response(NoneHasNoLower)

\* C26 witness: a proposal with a null target was answered by the error
\* response.
ExecuteWithoutTargetWitness ==
    /\ Proposed
    /\ impl = "service"
    /\ parsed.d.action = execute_action
    /\ parsed.d.target = Null
    /\ result.action = clarify
    /\ result.confidence = Num(0)

(***************************************************************************)
(* Properties of the parser (specification ParseSpec).                     *)
(***************************************************************************)
Parsed == pc = "parse_done"

\* what _parse_gpt_response takes for a valid decision object
ValidDecision(d) == Complete(d) /\ d.action \in CodeVocabulary

HasToken(text, tok) == \E i \in 1..Len(text) : text[i] = tok

\* C7 as claimed: for every valid decision object and every leading and
\* trailing prose, braces included, parsing prose + encode(D) + prose
\* returns exactly D.
RoundTripAnyProse ==
    (Parsed /\ ValidDecision(synthetic.d)) => parsed = Return(synthetic.d)

\* C7 as amended: the round trip holds when the leading prose has no '{'
\* and the trailing prose has no '}'.
RoundTrip ==
    (/\ Parsed
     /\ ValidDecision(synthetic.d)
     /\ ~HasToken(synthetic.lead, LB)
     /\ ~HasToken(synthetic.trail, RB)) => parsed = Return(synthetic.d)

\* C7 witness: an object between non-empty prose came back unchanged.
RoundTripWitness ==
    /\ Parsed
    /\ ValidDecision(synthetic.d)
    /\ synthetic.lead # <<>>
    /\ synthetic.trail # <<>>
    /\ parsed = Return(synthetic.d)

\* C9 as claimed: the parser accepts a complete reply exactly when its
\* action is one of update_field, toggle_mode, execute_action, clarify,
\* acknowledge, explain_capabilities, provide_suggestion.
ActionVocabularyOfSpec ==
    (/\ Parsed
     /\ Complete(synthetic.d)
     /\ ~HasToken(synthetic.lead, LB)
     /\ ~HasToken(synthetic.trail, RB)) =>
        (parsed.ok <=> synthetic.d.action \in SpecVocabulary)

\* C9 as amended: _parse_gpt_response accepts a complete reply exactly when
\* its action is one of update_field, toggle_mode, navigate, execute_action,
\* clarify.
ActionVocabulary ==
    (/\ Parsed
     /\ Complete(synthetic.d)
     /\ ~HasToken(synthetic.lead, LB)
     /\ ~HasToken(synthetic.trail, RB)) =>
        (parsed.ok <=> synthetic.d.action \in CodeVocabulary)

\* C9 witness: a navigate reply was accepted.
ActionVocabularyWitness ==
    /\ Parsed
    /\ Complete(synthetic.d)
    /\ synthetic.d.action = navigate
    /\ parsed.ok

(***************************************************************************)
(* Properties of the summarizers (specification SummarySpec).              *)
(***************************************************************************)
\* the provider's outcome is a text that holds a JSON object, code fences
\* and white space aside
StructuredReply ==
    /\ reply.kind = "text"
    /\ summary_loads(RemoveFences(Strip(reply.text, Space))).ok
    /\ summary_loads(RemoveFences(Strip(reply.text, Space))).kind = "dict"

\* the transcript itself up to 200 characters, else its first 200
\* characters followed by "..."
TruncatedCopy(t) == IF Len(t) <= 200 THEN t ELSE SubSeq(t, 1, 200) \o L("...")

SummaryNonEmpty ==
    (Done /\ impl = "generate_summary" /\ ~raised) =>
        /\ summary.kind = "dict"
        /\ \A k \in SummaryKeys : summary.d[k] # Absent
        /\ Truthy(summary.d.taskDescription)

\* C13 witness: the reply {} came back with the five keys and a substituted
\* taskDescription.
SummaryNonEmptyWitness ==
    /\ Done
    /\ impl = "generate_summary"
    /\ reply.kind = "text"
    /\ reply.text = <<LB, RB>>
    /\ summary.kind = "dict"
    /\ summary.d.taskDescription = Str(L("Work activity completed"))
    /\ summary.d.notes = Null

\* the object between the first '{' and the last '}' of the reply
EmbeddedObject(text) ==
    LoadsOver(SummaryKeys, Slice(text, Find(text, "{"), RFind(text, "}") + 1))

\* what precedes the first '{' and what follows the last '}' is words
ProseAround(text) ==
    \A i \in 1..Len(text) :
        (i <= Find(text, "{") \/ i > RFind(text, "}") + 1) => text[i] = Word

ShortTranscriptRejected ==
    (/\ Done
     /\ impl = "generate_summary"
     /\ (transcription = <<>> \/ Len(Strip(transcription, " ")) < 10)) =>
        /\ raised
        /\ error = L("Transcription text too short to summarize")
        /\ gptCalls = 0
        /\ reply = NoReply
        /\ summary = NoSummary

\* C15 witness: a transcript of 10 characters, white space included, whose
\* stripped length is 9 was rejected.
ShortTranscriptRejectedWitness ==
    /\ Done
    /\ impl = "generate_summary"
    /\ Len(transcription) >= 10
    /\ Len(Strip(transcription, " ")) < 10
    /\ raised
    /\ gptCalls = 0

(***************************************************************************)
(* Properties of the transcribers (specification TranscribeSpec).          *)
(***************************************************************************)
\* C16: for every request that staged audio in a temporary file, the file
\* no longer exists when the handler returns or raises, whatever the exit
\* path: transcription, failed write, provider exception, failed unlink.
TempFileReleased ==
    (Done /\ staged # "none") => staged = "removed"

\* C18: a transcription request with empty audio, a format outside m4a,
\* mp4, wav, mp3, webm, audio that is not base64 or audio over 25 MB fails
\* with an error; no temporary file is created and the speech provider is
\* not called.  Stated for a file system that has failed no write and no
\* unlink so far.
TranscriptionInputValidation ==
    (/\ impl \in {"transcription_service", "transcribe_endpoint"}
     /\ ~Contains(WriteFailed, error)
     /\ \/ audio.empty
        \/ audio.format \notin {"m4a", "mp4", "wav", "mp3", "webm"}
        \/ ~audio.b64ok
        \/ audio.sizeMB > 25) =>
        /\ Done
        /\ raised
        /\ error # <<>>
        /\ staged = "none"
        /\ whisperCalls = 0

(***************************************************************************)
(* Properties of concurrent requests (specification ConcSpec).             *)
(***************************************************************************)
\* what request q returns or raises when it runs alone with the same
\* arguments and the same provider outcome; alone, the speech provider is
\* sent the request's own audio
Alone(q) ==
    IF q.kind = "command" THEN RunCommand(q.transcript, q.ctx, q.reply)
    ELSE IF q.kind = "summary" THEN RunSummary(q.transcript, q.reply)
    ELSE IF q.reply.kind = "exception" THEN Raise(ProviderError)
    ELSE Return(TranscriptionResult(Whisper(q.audio), "m4a"))

\* request r is between the creation of its temporary file and the finally
\* block that removes it
InProgress(r) == requests[r].pc \in {"staged", "await_whisper"}

\* C19: in every interleaving of concurrent command, summary and
\* transcription requests, a finished request has the result it has when
\* run alone, the speech provider was sent the request's own audio, and
\* while a request holds a temporary file, the file exists, holds that
\* request's audio and is the file of no other request in progress.
RequestIndependence ==
    /\ \A r \in 1..MaxRequests :
           /\ requests[r].pc = "done" => requests[r].result = Alone(requests[r])
           /\ requests[r].sent \in {"", requests[r].audio}
    /\ \A r \in 1..MaxRequests :
           InProgress(r) =>
               /\ \E f \in files : /\ f.name = requests[r].temp_file_path
                                   /\ f.content = requests[r].audio
               /\ \A o \in 1..MaxRequests :
                      (/\ InProgress(o)
                       /\ requests[o].temp_file_path = requests[r].temp_file_path)
                          => o = r

\* C19 witness: a transcription request finished with the transcript of its
\* own audio while another one, with other audio, has its file staged.
RequestIndependenceWitness ==
    \E r \in 1..MaxRequests, o \in 1..MaxRequests :
        /\ r # o
        /\ requests[r].kind = "transcription"
        /\ requests[o].kind = "transcription"
        /\ requests[r].audio # requests[o].audio
        /\ requests[r].pc = "done"
        /\ requests[r].result =
               Return(TranscriptionResult(Whisper(requests[r].audio), "m4a"))
        /\ requests[o].pc = "await_whisper"

(***************************************************************************)
(* Properties of the resolver on field descriptors (specification          *)
(* DescriptorSpec).                                                        *)
(***************************************************************************)
\* the context with the isEditable flag of the fields at the indices in S
\* turned over
FlipEditable(ctx, S) ==
    [ctx EXCEPT !.visibleFields =
        [i \in 1..Len(ctx.visibleFields) |->
            IF i \in S
            THEN [ctx.visibleFields[i] EXCEPT
                    !.isEditable = IF @ = Bool(TRUE) THEN Bool(FALSE) ELSE Bool(TRUE)]
            ELSE ctx.visibleFields[i]]]

\* the target of the proposal is a field the context marks read-only
AimsAtReadOnly ==
    \E f \in Fields : f.name = parsed.d.target /\ f.isEditable = Bool(FALSE)

\* C27: for the same parsed reply, _enhance_response gives the same outcome
\* on the request's context and on every context that differs from it only
\* in isEditable flags, and that outcome is what the caller gets; so in edit
\* mode an update_field aimed at a read-only field is returned as
\* update_field.
EditableIndependence ==
    (Proposed /\ impl = "service") =>
        /\ \A S \in SUBSET (1..Len(screen_context.visibleFields)) :
               _enhance_response(parsed.d, FlipEditable(screen_context, S))
                   = _enhance_response(parsed.d, screen_context)
        /\ result = HandleException(_enhance_response(parsed.d, screen_context)).d
        /\ (/\ parsed.d.action = update_field
            /\ screen_context.mode = Str(S_edit)
            /\ AimsAtReadOnly) =>
               result.action = update_field

\* C27 witness: in edit mode an update of the read-only location field was
\* returned as update_field with the proposed value.
EditableIndependenceWitness ==
    /\ Proposed
    /\ impl = "service"
    /\ parsed.d.action = update_field
    /\ screen_context.mode = Str(S_edit)
    /\ AimsAtReadOnly
    /\ result.action = update_field
    /\ result.value = Str(S_office)

\* some descriptor of the context lacks a key _format_fields reads
IncompleteDescriptor ==
    \E f \in Fields :
        \E k \in {"label", "name", "currentValue", "isEditable"} : f[k] = Absent

\* C28: a request whose visibleFields holds a descriptor without label,
\* name, currentValue or isEditable ends while the prompt is built: the
\* caller gets the error response carrying the KeyError, nothing is raised
\* and the inference provider is not called.
IncompleteDescriptorFails ==
    (impl = "service" /\ IncompleteDescriptor) =>
        /\ Done
        /\ ~raised
        /\ gptCalls = 0
        /\ reply = NoReply
        /\ prompt = <<>>
        /\ \E k \in {"label", "name", "currentValue", "isEditable"} :
               result = _create_error_response(KeyError(k))

\* C28 witness: the second descriptor of the context lacks isEditable and
\* the request ended with the error response.
IncompleteDescriptorFailsWitness ==
    /\ Done
    /\ impl = "service"
    /\ Len(screen_context.visibleFields) = 2
    /\ screen_context.visibleFields[2].isEditable = Absent
    /\ result = _create_error_response(KeyError("isEditable"))
    /\ gptCalls = 0

(***************************************************************************)
(* Properties of the prompt builders (specification PromptSpec).           *)
(***************************************************************************)
\* the text of a quotation that opens at position i of text: it runs to the
\* first double quote that no backslash escapes, and an escaped character
\* stands for itself
RECURSIVE Quotation(_, _)
Quotation(text, i) ==
    IF i > Len(text) THEN <<>>
    ELSE IF text[i] = "\"" THEN <<>>
    ELSE IF text[i] = "\\" /\ i < Len(text)
    THEN <<text[i + 1]>> \o Quotation(text, i + 2)
    ELSE <<text[i]>> \o Quotation(text, i + 1)

\* the quoted region that follows the marker in the prompt
QuotedAfter(marker, text) ==
    LET at == CHOOSE i \in 1..Len(text) : text[i] = marker
    IN  Quotation(text, at + 2)

\* the marker that precedes the utterance in each prompt
UtteranceMarker ==
    IF impl = "command_prompt" THEN "\n\nUSER COMMAND: "
    ELSE "Please analyze this work activity transcription and provide a structured summary:\n\nTranscription: "

\* C23: in the prompt of either builder, the quoted region after the marker
\* holds exactly the transcript, whatever characters the transcript has.
PromptEscaping ==
    pc = "prompt_built" =>
        QuotedAfter(UtteranceMarker, prompt) = transcription

(***************************************************************************)
(* Properties of the temporary-file helpers (specification FileSpec).      *)
(***************************************************************************)
\* C29: from the return of save_temp_file to the caller's own
\* cleanup_temp_file, the file under the returned path exists and holds the
\* bytes that caller saved, whatever the other callers do and whatever file
\* names they pass.
SavedFileKept ==
    \A c \in 1..MaxCallers :
        requests[c].pc = "saved" =>
            \E f \in files :
                /\ f.name = requests[c].temp_path
                /\ f.content = L(requests[c].data)

(***************************************************************************)
(* Properties of wait_for_ngrok (specification NgrokSpec).                 *)
(***************************************************************************)
\* the answer holds an https tunnel
HasHttps(response) ==
    /\ ~response.failed
    /\ \E i \in 1..Len(response.tunnels) : response.tunnels[i].proto = "https"

\* the polls made so far, and those that found an https tunnel
Polls == Len(ngrok.responses)

Found == {i \in 1..Polls : HasHttps(ngrok.responses[i])}

\* at most max_attempts polls; no poll after one that found a tunnel; a
\* returned URL is that of the first https tunnel of the last poll; None is
\* returned exactly when max_attempts polls were made and none found one
WaitForNgrokResult ==
    /\ Polls <= ngrok.max_attempts
    /\ Found \subseteq {Polls}
    /\ ngrok.pc \in {"poll", "sleep"} => ngrok.attempt \in 1..ngrok.max_attempts
    /\ ngrok.pc = "returned" =>
           /\ Found # {} => /\ ngrok.url.t = "str"
                            /\ \E i \in 1..Len(ngrok.responses[Polls].tunnels) :
                                   LET tunnel == ngrok.responses[Polls].tunnels[i]
                                   IN  /\ tunnel.proto = "https"
                                       /\ ngrok.url = Str(L(tunnel.public_url))
                                       /\ \A j \in 1..(i - 1) :
                                              ngrok.responses[Polls].tunnels[j].proto
                                                  # "https"
           /\ ngrok.url = Null <=> (Found = {} /\ Polls = ngrok.max_attempts)

\* C30: wait_for_ngrok always terminates, after at most max_attempts polls,
\* with the URL of the first poll that found an https tunnel, or with None
\* exactly when all max_attempts polls found none; a failed request counts
\* as a poll that found none.
WaitForNgrokTerminates ==
    /\ []WaitForNgrokResult
    /\ (ngrok.pc \in {"poll", "sleep"}) ~> (ngrok.pc = "returned")

\* C30 witness: the first request failed, the second answer had only an http
\* tunnel, the third had an https tunnel behind an http one, and its URL was
\* returned after three polls.
WaitForNgrokTerminatesWitness ==
    /\ ngrok.pc = "returned"
    /\ Polls = 3
    /\ ngrok.responses[1] = RequestFailed
    /\ ~ngrok.responses[2].failed
    /\ Len(ngrok.responses[2].tunnels) = 1
    /\ ~HasHttps(ngrok.responses[2])
    /\ Len(ngrok.responses[3].tunnels) = 2
    /\ ngrok.responses[3].tunnels[1].proto = "http"
    /\ ngrok.url = Str(L("https://b.ngrok.io"))

====
